---------------------------- MODULE Spec2Model ----------------------------
(***************************************************************************)
(* A model of atrope's reconciliation code:                                *)
(*   - atrope/dispatcher/glance.py  Dispatcher.dispatch, Dispatcher.sync   *)
(*   - atrope/image.py              BaseImage.convert, HepixImage.download *)
(*   - atrope/image_list/harbor.py  tag selection of _process_artifact     *)
(* The glance catalog is the remote collaborator: a map from image id to   *)
(* the entry's tags, properties, status, visibility, owner and members.    *)
(***************************************************************************)
EXTENDS Integers, Sequences, FiniteSets, TLC

VARIABLES
    catalog,    \* glance: image id -> entry
    nextId,     \* glance: the id the next created image gets
    files,      \* local disk: the converted files, <<identifier, format>>
    conf,       \* CONF.glance: sharing_model, formats
    disp,       \* dispatch in progress, per dispatcher process
    last,       \* summary of the dispatch that ran before the current one
    runs,       \* number of dispatches started
    faults,     \* number of remote calls that failed so far
    syn,        \* sync in progress
    dl,         \* HepixImage.download in progress
    sel,        \* _process_artifact tag selection in progress
    cv,         \* BaseImage.convert call in progress
    hb          \* the HarborImageListSource: its configuration, image_list, error

vars == <<catalog, nextId, files, conf, disp, last, runs, faults, syn, dl, sel, cv, hb>>

----------------------------------------------------------------------------
(* Bounds of the model *)

MaxImages == 4      \* ids glance hands out
MaxRuns == 2        \* dispatches per behaviour
MaxFaults == 1      \* remote calls that fail per behaviour

----------------------------------------------------------------------------
(* Configuration and fixed tables *)

\* CONF.glance.tag
Tag == "atrope"

\* the project the dispatcher's credentials are scoped to: owner of what it creates
OwnProject == "p0"

\* self.vo_map, read from CONF.glance.vo_map: vo -> project_id
VoMap == [vo0 |-> "p0", vo1 |-> "p1", vo2 |-> "p2"]

\* self.vo_map.get(vo, {}).get("project_id", "")
ProjectOf(vo) == IF vo \in DOMAIN VoMap THEN VoMap[vo] ELSE ""

\* str.lower() on the format names the model uses
Lower(s) ==
    CASE s = "QCOW2" -> "qcow2"
      [] s = "VMDK" -> "vmdk"
      [] s = "OVA" -> "ova"
      [] s = "RAW" -> "raw"
      [] OTHER -> s

\* the disk formats glance accepts, dispatch's literal list
AllowedDiskFormats ==
    {"ami", "ari", "aki", "vhd", "vhdx", "vmdk", "raw", "qcow2", "vdi", "iso",
     "ploop", "root-tar"}

\* the keys of dispatch's metadata dict before the kwargs are merged
MetadataKeys(image) ==
    {"name", "tags", "container_format", "architecture", "disk_format",
     "os_distro", "os_version", "visibility", "vmcatcher_event_dc_description",
     "vmcatcher_event_ad_mpuri", "appdb_id", "image_hash"}
    \cup (IF image.appliance_attributes THEN {"APPLIANCE_ATTRIBUTES"} ELSE {})

----------------------------------------------------------------------------
(* Pure parts of Dispatcher.dispatch *)

\* the visibility dispatch derives from the sharing model, the vos and is_public
Visibility(sharing_model, vos, is_public) ==
    IF sharing_model = "community" THEN "community"
    ELSE IF sharing_model = "shared" /\ vos # <<>> THEN "shared"
    ELSE IF is_public THEN "public" ELSE "private"

\* the check of the caller's properties left out
MetadataCollisionUnchecked(image, kwargs) == FALSE

\* for k in kwargs: if k in metadata: raise MetadataOverwriteNotSupported
MetadataCollision(image, kwargs) ==
    \E k \in DOMAIN kwargs : k \in MetadataKeys(image)

\* the managed entries whose appdb_id is the descriptor's identifier
Lookup(cat, image) ==
    {id \in DOMAIN cat : Tag \in cat[id].tags /\ cat[id].appdb_id = image.identifier}

\* a duplicate check that tolerates a pair of entries
DuplicatedOverTwo(images) == Cardinality(images) > 2

\* len(images) > 1
Duplicated(images) == Cardinality(images) > 1

\* a comparison with a property the entries do not carry: always different
HashDiffersAlways(glance_image, image) == "" # image.hash

\* glance_image.properties.get("image_hash", "") != image.hash
HashDiffers(glance_image, image) == glance_image.image_hash # image.hash

\* the allow-list check without the lower()
CoerceDiskFormatCased(fmt) ==
    IF fmt \in AllowedDiskFormats THEN fmt ELSE "raw"

\* metadata["disk_format"] after lower() and the allow-list check
CoerceDiskFormat(fmt) ==
    IF Lower(fmt) \in AllowedDiskFormats THEN Lower(fmt) ELSE "raw"

\* metadata["container_format"]: the literal "bare", never recomputed
ContainerFormat(disk_format) == "bare"

\* Dispatcher._guess_formats: <<container_format, disk_format>>, or the
\* string "ImageListSpecIsBorken" for what it raises on
guess_formats(smth_format) ==
    CASE smth_format = "ova" -> <<"ova", "vmdk">>
      [] smth_format = "standard" -> <<"bare", "raw">>
      [] smth_format = "qcow2" -> <<"bare", "qcow2">>
      [] OTHER -> "ImageListSpecIsBorken"

----------------------------------------------------------------------------
(* BaseImage.get_disk and BaseImage.convert *)

\* get_disk: the format of the disk, the one inside the container for an OVA
get_disk(image) ==
    IF Lower(image.format) # "ova" THEN image.format ELSE image.ovf_format

\* the membership test on the format as the descriptor spells it
ConvertIsNoopCased(fmt, dest_formats) ==
    dest_formats = <<>> \/ \E i \in DOMAIN dest_formats : dest_formats[i] = fmt

\* (not dest_formats) or (fmt.lower() in dest_formats)
ConvertIsNoop(fmt, dest_formats) ==
    dest_formats = <<>> \/ \E i \in DOMAIN dest_formats : dest_formats[i] = Lower(fmt)

\* "%s.%s" % (self.location, dest_fmt), a path as the sequence of its parts
converted_location(image, dest_fmt) == <<image.identifier, dest_fmt>>

\* not self.verified or not os.path.exists(converted_location)
NeedsQemu(image, dest_fmt, disk) ==
    ~image.verified \/ converted_location(image, dest_fmt) \notin disk

\* convert: what it returns (fmt and the stream: <<identifier>> for the disk
\* get_disk gave, the converted location otherwise), whether qemu-img ran, the
\* files afterwards, and the error it raised ("" for none). qemu_ok: qemu-img
\* exits with 0.
convert(image, dest_formats, disk, qemu_ok) ==
    LET fmt == get_disk(image) IN
    IF ConvertIsNoop(fmt, dest_formats)
    THEN [err |-> "", fmt |-> fmt, stream |-> <<image.identifier>>, qemu |-> FALSE,
          files |-> disk]
    ELSE LET dest_fmt == dest_formats[1] IN
         IF NeedsQemu(image, dest_fmt, disk)
         THEN IF qemu_ok
              THEN [err |-> "", fmt |-> dest_fmt,
                    stream |-> converted_location(image, dest_fmt), qemu |-> TRUE,
                    files |-> disk \cup {converted_location(image, dest_fmt)}]
              ELSE [err |-> "ImageConversionerror", fmt |-> "", stream |-> <<>>,
                    qemu |-> TRUE, files |-> disk]
         ELSE [err |-> "", fmt |-> dest_fmt,
               stream |-> converted_location(image, dest_fmt), qemu |-> FALSE,
               files |-> disk]

\* what subprocess.run(cmd, capture_output=True, check=True) may end with:
\* the exit code of qemu-img and what it wrote to stderr
QemuRuns ==
    {[returncode |-> 0, stderr |-> ""], [returncode |-> 1, stderr |-> "e1"],
     [returncode |-> 2, stderr |-> "e2"]}

\* qemu-img was not run
NoRunResult == [returncode |-> 0, stderr |-> ""]

\* a conversion error that keeps nothing of the failed run
ImageConversionerrorBare(e) == [code |-> 1, reason |-> ""]

\* exception.ImageConversionerror(code=e.returncode, reason=e.stderr)
ImageConversionerror(e) == [code |-> e.returncode, reason |-> e.stderr]

----------------------------------------------------------------------------
(* The glance catalog *)

\* glance_image = None
NoImage == [id |-> 0, status |-> "", visibility |-> "", owner |-> "", image_hash |-> ""]

\* the resource object a listing or a create returns: a copy, not refreshed later
Resource(cat, id) ==
    [id |-> id, status |-> cat[id].status, visibility |-> cat[id].visibility,
     owner |-> cat[id].owner, image_hash |-> cat[id].image_hash]

\* the catalog without entry id
Without(cat, id) == [j \in DOMAIN cat \ {id} |-> cat[j]]

\* the entry create_image makes from dispatch's metadata: queued, owned by the
\* dispatcher's project, no members; kwargs carries the caller's properties
NewEntry(image, kwargs, disk_format, visibility) ==
    [tags |-> {Tag}, appdb_id |-> image.identifier, image_hash |-> image.hash,
     image_list |-> IF "image_list" \in DOMAIN kwargs THEN kwargs.image_list ELSE "",
     status |-> "queued", visibility |-> visibility, owner |-> OwnProject,
     members |-> {}, disk_format |-> disk_format,
     container_format |-> ContainerFormat(disk_format)]

\* member ids of an entry
MemberIds(entry) == {m.member_id : m \in entry.members}

----------------------------------------------------------------------------
(* Remote calls that may be rejected *)

\* A call on entry id answers ok only if the entry exists; a call on an
\* existing entry is rejected at most MaxFaults times per behaviour.
Answer(ok, id) ==
    /\ ok => id \in DOMAIN catalog
    /\ (~ok /\ id \in DOMAIN catalog) => faults < MaxFaults
    /\ faults' = IF ~ok /\ id \in DOMAIN catalog THEN faults + 1 ELSE faults

----------------------------------------------------------------------------
(* Dispatcher.dispatch, one action per remote call *)

Procs == {1, 2}

IdleDisp ==
    [pc |-> "idle", image |-> [identifier |-> ""], is_public |-> FALSE, vos |-> <<>>,
     kwargs |-> <<>>, visibility |-> "", glance_image |-> NoImage, disk_format |-> "",
     i |-> 0, members |-> {}, calls |-> <<>>, err |-> "", before |-> <<>>,
     nfound |-> 0, stale |-> 0, fmt |-> "", qemu |-> FALSE, run |-> NoRunResult,
     code |-> 0, reason |-> "", listed |-> {}]

\* the dispatch of p ends with an exception; call is the remote call that raised
Raise(p, e, call) ==
    disp' = [disp EXCEPT ![p].pc = "error", ![p].err = e,
                         ![p].calls = IF call = "" THEN @ ELSE Append(@, call)]

\* the indexes of the vos the loop of lines 274-290 shares the image with
Shareable(vos, glance_image) ==
    {j \in 1..Len(vos) : ProjectOf(vos[j]) # "" /\ glance_image.owner # ProjectOf(vos[j])}

\* the first index >= i the loop shares with, 0 when it is over
NextShare(vos, glance_image, i) ==
    LET S == {j \in Shareable(vos, glance_image) : j >= i} IN
    IF S = {} THEN 0 ELSE CHOOSE j \in S : \A k \in S : j <= k

\* line 273 on: the sharing loop, then _clean_stale_memberships, under the
\* shared model; nothing under the community model
AfterVisibility(d) ==
    IF conf.sharing_model = "shared"
    THEN IF NextShare(d.vos, d.glance_image, 1) # 0 THEN "share" ELSE "clean_begin"
    ELSE "done"

\* lines 262-265
AfterUpload(d) ==
    IF d.glance_image.status = "active" /\ d.glance_image.visibility # d.visibility
    THEN "set_visibility" ELSE AfterVisibility(d)

\* an upload whatever the status of the entry
AfterCreateAlways(d) == "upload"

\* line 258
AfterCreate(d) ==
    IF d.glance_image.status = "queued" THEN "upload" ELSE AfterUpload(d)

\* line 252
AfterConvert(d) ==
    IF d.glance_image.id = 0 THEN "create" ELSE AfterCreate(d)

\* the summary kept of the dispatch p ran last: its inputs, how it ended, and
\* the managed entries and members its identifier has in the catalog
Summary(p) ==
    LET d == disp[p]
        ids == Lookup(catalog, d.image) IN
    [ran |-> TRUE, image |-> d.image, is_public |-> d.is_public, vos |-> d.vos,
     kwargs |-> d.kwargs, outcome |-> d.pc, err |-> d.err, calls |-> d.calls,
     ids |-> ids, members |-> UNION {catalog[id].members : id \in ids}]

NoRun ==
    [ran |-> FALSE, image |-> [identifier |-> ""], is_public |-> FALSE, vos |-> <<>>,
     kwargs |-> <<>>, outcome |-> "", err |-> "", calls |-> <<>>, ids |-> {},
     members |-> {}]

\* dispatch(image_name, image, is_public, vos=vos, **kwargs), lines 168-203:
\* the visibility, the metadata and the check of the caller's properties
DispatchStart(p, image, is_public, vos, kwargs) ==
    /\ disp[p].pc \in {"idle", "done", "error"}
    /\ runs < MaxRuns
    /\ runs' = runs + 1
    /\ last' = IF disp[p].pc = "idle" THEN last ELSE Summary(p)
    /\ LET d == [IdleDisp EXCEPT !.image = image, !.is_public = is_public,
                                 !.vos = vos, !.kwargs = kwargs, !.before = catalog,
                                 !.visibility = Visibility(conf.sharing_model, vos, is_public)]
       IN IF MetadataCollision(image, kwargs)
          THEN disp' = [disp EXCEPT ![p] = [d EXCEPT !.pc = "error",
                                                     !.err = "MetadataOverwriteNotSupported"]]
          ELSE disp' = [disp EXCEPT ![p] = [d EXCEPT !.pc = "list"]]
    /\ UNCHANGED <<catalog, nextId, files, conf, faults, syn, dl, sel, cv, hb>>

\* lines 205-232 up to the delete: the listing by tag, the duplicate check,
\* the comparison of the stored hash
ListImages(p) ==
    /\ disp[p].pc = "list"
    /\ LET d == disp[p]
           images == Lookup(catalog, d.image)
           calls == Append(d.calls, "images")
           n == Cardinality(images) IN
       IF Duplicated(images)
       THEN disp' = [disp EXCEPT ![p].pc = "error", ![p].err = "DuplicatedImage",
                                 ![p].calls = calls, ![p].nfound = n]
       ELSE IF images = {}
       THEN disp' = [disp EXCEPT ![p].pc = "convert", ![p].calls = calls]
       ELSE LET glance_image == Resource(catalog, CHOOSE id \in images : TRUE) IN
            IF HashDiffers(glance_image, d.image)
            THEN disp' = [disp EXCEPT ![p].pc = "delete", ![p].calls = calls,
                                      ![p].nfound = n, ![p].stale = glance_image.id,
                                      ![p].glance_image = glance_image]
            ELSE disp' = [disp EXCEPT ![p].pc = "convert", ![p].calls = calls,
                                      ![p].nfound = n,
                                      ![p].glance_image = glance_image]
    /\ UNCHANGED <<catalog, nextId, files, conf, last, runs, faults, syn, dl, sel, cv, hb>>

\* the stale entry forgotten (glance_image = None) without the delete_image
DeleteStaleSkipped(p) ==
    /\ disp[p].pc = "delete"
    /\ disp' = [disp EXCEPT ![p].pc = "convert", ![p].glance_image = NoImage]
    /\ UNCHANGED <<catalog, nextId, files, conf, last, runs, faults, syn, dl, sel, cv, hb>>

\* line 231: delete_image of the entry whose hash differs, then glance_image = None
DeleteStale(p) ==
    /\ disp[p].pc = "delete"
    /\ \E ok \in BOOLEAN :
         /\ Answer(ok, disp[p].glance_image.id)
         /\ IF ok
            THEN /\ catalog' = Without(catalog, disp[p].glance_image.id)
                 /\ disp' = [disp EXCEPT ![p].pc = "convert",
                                         ![p].glance_image = NoImage,
                                         ![p].calls = Append(@, "delete_image")]
            ELSE /\ Raise(p, "HttpException", "delete_image")
                 /\ UNCHANGED catalog
    /\ UNCHANGED <<nextId, files, conf, last, runs, syn, dl, sel, cv, hb>>

\* lines 234-250: image.convert(CONF.glance.formats), lower(), the allow-list
Convert(p) ==
    /\ disp[p].pc = "convert"
    /\ \E run \in QemuRuns :
         LET d == disp[p]
             qemu_ok == run.returncode = 0
             r == convert(d.image, conf.formats, files, qemu_ok)
             failed == r.qemu /\ ~qemu_ok IN
         /\ qemu_ok \/ r.qemu
         /\ failed => faults < MaxFaults
         /\ faults' = IF failed THEN faults + 1 ELSE faults
         /\ files' = r.files
         /\ IF r.err # ""
            THEN disp' = [disp EXCEPT ![p].pc = "error", ![p].err = r.err,
                                      ![p].qemu = r.qemu, ![p].run = run,
                                      ![p].code = ImageConversionerror(run).code,
                                      ![p].reason = ImageConversionerror(run).reason]
            ELSE LET e == [d EXCEPT !.disk_format = CoerceDiskFormat(r.fmt),
                                    !.fmt = r.fmt, !.qemu = r.qemu]
                 IN disp' = [disp EXCEPT ![p] = [e EXCEPT !.pc = AfterConvert(e)]]
    /\ UNCHANGED <<catalog, nextId, conf, last, runs, syn, dl, sel, cv, hb>>

\* what create_image raises when the catalog rejects it: ForbiddenException
\* (403, a subclass of HttpException) or another HttpException
CreateErrors == {"ForbiddenException", "HttpException"}

\* a create that is tried again after a rejection
CreateRetrying(p) ==
    /\ disp[p].pc = "create"
    /\ nextId <= MaxImages
    /\ \E ok \in BOOLEAN, e \in CreateErrors :
         /\ ~ok => faults < MaxFaults
         /\ ok => e = "HttpException"
         /\ faults' = IF ok THEN faults ELSE faults + 1
         /\ disp' = [disp EXCEPT ![p].calls = Append(@, "create_image"),
                                 ![p].err = IF ok THEN @ ELSE e]
         /\ UNCHANGED <<catalog, nextId>>
    /\ UNCHANGED <<files, conf, last, runs, syn, dl, sel, cv, hb>>

\* lines 252-256: create_image(**metadata, allow_duplicates=True), outside any
\* try: what the catalog raises ends the dispatch
Create(p) ==
    /\ disp[p].pc = "create"
    /\ nextId <= MaxImages
    /\ \E ok \in BOOLEAN, e \in CreateErrors :
         /\ ~ok => faults < MaxFaults
         /\ ok => e = "HttpException"
         /\ faults' = IF ok THEN faults ELSE faults + 1
         /\ IF ok
            THEN LET d == disp[p]
                     cat == (nextId :> NewEntry(d.image, d.kwargs, d.disk_format,
                                                d.visibility)) @@ catalog
                     f == [d EXCEPT !.glance_image = Resource(cat, nextId),
                                    !.calls = Append(@, "create_image")]
                 IN /\ catalog' = cat
                    /\ nextId' = nextId + 1
                    /\ disp' = [disp EXCEPT ![p] = [f EXCEPT !.pc = AfterCreate(f)]]
            ELSE /\ Raise(p, e, "create_image")
                 /\ UNCHANGED <<catalog, nextId>>
    /\ UNCHANGED <<files, conf, last, runs, syn, dl, sel, cv, hb>>

\* update_image(id, visibility=v) on the catalog
SetVis(cat, id, v) == [cat EXCEPT ![id].visibility = v]

\* lines 258-260: glance_image.upload(); glance turns the entry active, the
\* resource object held by dispatch keeps the status it was read with
Upload(p) ==
    /\ disp[p].pc = "upload"
    /\ \E ok \in BOOLEAN :
         LET d == disp[p] IN
         /\ Answer(ok, d.glance_image.id)
         /\ IF ok
            THEN /\ catalog' = [catalog EXCEPT ![d.glance_image.id].status = "active"]
                 /\ LET e == [d EXCEPT !.calls = Append(@, "upload")]
                    IN disp' = [disp EXCEPT ![p] = [e EXCEPT !.pc = AfterUpload(e)]]
            ELSE /\ Raise(p, "HttpException", "upload")
                 /\ UNCHANGED catalog
    /\ UNCHANGED <<nextId, files, conf, last, runs, syn, dl, sel, cv, hb>>

\* lines 262-265: update_image(visibility=visibility) of an active entry
SetVisibility(p) ==
    /\ disp[p].pc = "set_visibility"
    /\ \E ok \in BOOLEAN :
         LET d == disp[p] IN
         /\ Answer(ok, d.glance_image.id)
         /\ IF ok
            THEN /\ catalog' = SetVis(catalog, d.glance_image.id, d.visibility)
                 /\ LET e == [d EXCEPT !.calls = Append(@, "update_image")]
                    IN disp' = [disp EXCEPT ![p] = [e EXCEPT !.pc = AfterVisibility(e)]]
            ELSE /\ Raise(p, "HttpException", "update_image")
                 /\ UNCHANGED catalog
    /\ UNCHANGED <<nextId, files, conf, last, runs, syn, dl, sel, cv, hb>>

\* the parameters of def _share_image(self, image, glance_image, project)
ShareImageParams == {"image", "glance_image", "project"}

\* the keywords of the call self._share_image(vo=, image=, glance_image=, project=)
ShareImageCall == {"vo", "image", "glance_image", "project"}

\* _share_image: add_member (a member already there is a conflict, passed
\* over), then update_member(status="accepted") as the project
share_image(cat, id, project) ==
    [cat EXCEPT ![id].members =
        {m \in @ : m.member_id # project}
        \cup {[member_id |-> project, status |-> "accepted"]}]

\* lines 275-290 for the next vo with a project that does not own the image:
\* mark the entry shared if the resource object is not, then call _share_image
ShareVo(p) ==
    /\ disp[p].pc = "share"
    /\ \E ok \in BOOLEAN :
         LET d == disp[p]
             id == d.glance_image.id
             j == NextShare(d.vos, d.glance_image, IF d.i = 0 THEN 1 ELSE d.i)
             update == d.glance_image.visibility # "shared"
             cat == IF update THEN SetVis(catalog, id, "shared") ELSE catalog
             e == [d EXCEPT !.visibility = IF update THEN "shared" ELSE @,
                            !.calls = IF update THEN Append(@, "update_image") ELSE @]
         IN
         /\ IF update THEN Answer(ok, id) ELSE ok /\ UNCHANGED faults
         /\ IF ~ok
            THEN /\ Raise(p, "HttpException", "update_image")
                 /\ UNCHANGED catalog
            ELSE IF ~(ShareImageCall \subseteq ShareImageParams)
            THEN /\ catalog' = cat
                 /\ disp' = [disp EXCEPT ![p] = [e EXCEPT !.pc = "error",
                                                          !.err = "TypeError"]]
            ELSE /\ catalog' = share_image(cat, id, ProjectOf(d.vos[j]))
                 /\ LET f == [e EXCEPT !.i = j + 1,
                                       !.calls = @ \o <<"add_member", "update_member">>]
                    IN disp' = [disp EXCEPT ![p] =
                          [f EXCEPT !.pc = IF NextShare(f.vos, f.glance_image, f.i) # 0
                                           THEN "share" ELSE "clean_begin"]]
    /\ UNCHANGED <<nextId, files, conf, last, runs, syn, dl, sel, cv, hb>>

\* a clean-up that takes no project for current
CurrentProjectsNone(vos) == {}

\* {self.vo_map.get(vo, {}).get("project_id", "") for vo in vos}
CurrentProjects(vos) == {ProjectOf(vos[j]) : j \in 1..Len(vos)}

\* _clean_stale_memberships, line 128: update_image(visibility="shared")
CleanBegin(p) ==
    /\ disp[p].pc = "clean_begin"
    /\ \E ok \in BOOLEAN :
         LET d == disp[p] IN
         /\ Answer(ok, d.glance_image.id)
         /\ IF ok
            THEN /\ catalog' = SetVis(catalog, d.glance_image.id, "shared")
                 /\ disp' = [disp EXCEPT ![p].pc = "clean_members",
                                         ![p].calls = Append(@, "update_image")]
            ELSE /\ Raise(p, "HttpException", "update_image")
                 /\ UNCHANGED catalog
    /\ UNCHANGED <<nextId, files, conf, last, runs, syn, dl, sel, cv, hb>>

\* line 130-132: the member listing, of which the loop revokes the members
\* whose project is not one of the vos'
CleanMembers(p) ==
    /\ disp[p].pc = "clean_members"
    /\ \E ok \in BOOLEAN :
         LET d == disp[p]
             id == d.glance_image.id IN
         /\ Answer(ok, id)
         /\ IF ok
            THEN LET stale == MemberIds(catalog[id]) \ CurrentProjects(d.vos) IN
                 disp' = [disp EXCEPT ![p].pc = IF stale = {} THEN "clean_end"
                                                ELSE "clean_remove",
                                      ![p].members = stale,
                                      ![p].listed = MemberIds(catalog[id]),
                                      ![p].calls = Append(@, "members")]
            ELSE Raise(p, "HttpException", "members")
    /\ UNCHANGED <<catalog, nextId, files, conf, last, runs, syn, dl, sel, cv, hb>>

\* line 133: remove_member for one member the listing gave
CleanRemove(p) ==
    /\ disp[p].pc = "clean_remove"
    /\ \E member_id \in disp[p].members, ok \in BOOLEAN :
         LET d == disp[p]
             id == d.glance_image.id
             left == d.members \ {member_id} IN
         /\ Answer(ok, id)
         /\ IF ok
            THEN /\ catalog' = [catalog EXCEPT ![id].members =
                                   {m \in @ : m.member_id # member_id}]
                 /\ disp' = [disp EXCEPT ![p].pc = IF left = {} THEN "clean_end"
                                                   ELSE "clean_remove",
                                         ![p].members = left,
                                         ![p].calls = Append(@, "remove_member")]
            ELSE /\ Raise(p, "HttpException", "remove_member")
                 /\ UNCHANGED catalog
    /\ UNCHANGED <<nextId, files, conf, last, runs, syn, dl, sel, cv, hb>>

\* line 139: update_image(visibility=visibility), the end of dispatch
CleanEnd(p) ==
    /\ disp[p].pc = "clean_end"
    /\ \E ok \in BOOLEAN :
         LET d == disp[p] IN
         /\ Answer(ok, d.glance_image.id)
         /\ IF ok
            THEN /\ catalog' = SetVis(catalog, d.glance_image.id, d.visibility)
                 /\ disp' = [disp EXCEPT ![p].pc = "done",
                                         ![p].calls = Append(@, "update_image")]
            ELSE /\ Raise(p, "HttpException", "update_image")
                 /\ UNCHANGED catalog
    /\ UNCHANGED <<nextId, files, conf, last, runs, syn, dl, sel, cv, hb>>

----------------------------------------------------------------------------
(* The inputs and initial states of the dispatch specification *)

\* a descriptor handed to dispatch: downloaded and verified; an OVA holds a
\* vmdk disk
Descriptor(hash, format) ==
    [identifier |-> "a", hash |-> hash, format |-> format, ovf_format |-> "vmdk",
     verified |-> TRUE, appliance_attributes |-> TRUE]

\* one identifier, two contents, three native formats
DispatchImages ==
    {Descriptor("h1", "QCOW2"), Descriptor("h2", "QCOW2"), Descriptor("h1", "OVA"),
     Descriptor("h2", "vpc")}

\* <<is_public, vos>>: vo0 maps to the owner's project, vo9 to none
DispatchCalls ==
    {<<TRUE, <<>>>>, <<FALSE, <<>>>>, <<FALSE, <<"vo0">>>>, <<TRUE, <<"vo9", "vo1">>>>}

\* the calls of dispatch: every image with every <<is_public, vos>> and the
\* image list's name as extra property, and calls whose extra properties
\* hold "name", a key dispatch computes itself
DispatchInputs ==
    {[image |-> image, is_public |-> c[1], vos |-> c[2],
      kwargs |-> [image_list |-> "list1"]] :
        image \in DispatchImages, c \in DispatchCalls}
    \cup
    {[image |-> Descriptor("h1", "QCOW2"), is_public |-> c[1], vos |-> c[2],
      kwargs |-> [image_list |-> "list1", name |-> "other"]] :
        c \in {<<FALSE, <<>>>>, <<FALSE, <<"vo0">>>>}}

\* CONF.glance
Confs ==
    {[sharing_model |-> m, formats |-> f] :
        m \in {"shared", "community"}, f \in {<<>>, <<"qcow2">>}}

\* an entry found in glance before the run
Found(tags, appdb_id, image_hash, status, visibility, members) ==
    [tags |-> tags, appdb_id |-> appdb_id, image_hash |-> image_hash,
     image_list |-> "list1", status |-> status, visibility |-> visibility,
     owner |-> OwnProject,
     members |-> {[member_id |-> m, status |-> "accepted"] : m \in members},
     disk_format |-> "qcow2", container_format |-> "bare"]

\* the catalogs a run may find: empty; the image active or still queued;
\* the image with members of other projects; two entries for the identifier;
\* entries that are not the dispatcher's or not this identifier's
InitCatalogs ==
    { <<>>,
      <<Found({Tag}, "a", "h1", "active", "private", {})>>,
      <<Found({Tag}, "a", "h1", "queued", "private", {})>>,
      <<Found({Tag}, "a", "h1", "active", "shared", {"p0", "p1"})>>,
      <<Found({Tag}, "a", "h1", "active", "community", {}),
        Found({Tag}, "a", "h2", "active", "community", {})>>,
      <<Found({}, "a", "h2", "active", "public", {}),
        Found({Tag}, "b", "h1", "active", "shared", {"p1"})>> }

NoSync ==
    [pc |-> "idle", name |-> "", valid |-> {}, todo |-> <<>>, before |-> <<>>,
     calls |-> <<>>, err |-> ""]
NoDownload ==
    [pc |-> "idle", expired |-> FALSE, sha512 |-> "", location |-> "", verified |-> FALSE,
     file |-> "none", found |-> "none", fetches |-> 0, n |-> 0, err |-> "",
     image_dict |-> <<>>, attrs |-> <<>>, reason |-> "",
     expires |-> [t |-> 0, aware |-> TRUE]]
NoSelect ==
    [pc |-> "idle", tags |-> <<>>, digest |-> <<>>, subscribed_images |-> {},
     tag_pattern |-> <<>>, matching_tag |-> <<>>]
NoConvert ==
    [pc |-> "idle", image |-> Descriptor("", ""), dest_formats |-> <<>>, fmt |-> "",
     stream |-> <<>>, qemu |-> FALSE, err |-> "", n |-> 0, kind |-> "",
     checked |-> -1, log |-> <<>>]

\* HarborImageListSource.__init__: image_list = [], no error
NoSource ==
    [pc |-> "idle", enabled |-> TRUE, subscribed_images |-> {}, image_list |-> <<>>,
     valid |-> <<>>, configured |-> TRUE, tag_pattern |-> <<>>, registry |-> <<>>,
     repositories |-> <<>>, k |-> 0, j |-> 0, page |-> 0, results |-> <<>>,
     error |-> "", log |-> <<>>, listings |-> <<>>, failed |-> {}, requests |-> <<>>,
     returned |-> <<>>]

InitDispatch ==
    /\ catalog \in InitCatalogs
    /\ nextId = 3
    /\ files = {}
    /\ conf \in Confs
    /\ disp = [p \in Procs |-> IdleDisp]
    /\ last = NoRun
    /\ runs = 0
    /\ faults = 0
    /\ syn = NoSync
    /\ dl = NoDownload
    /\ sel = NoSelect
    /\ cv = NoConvert
    /\ hb = NoSource

\* one dispatcher: dispatch after dispatch, each call blocking
NextDispatch ==
    \/ \E c \in DispatchInputs :
           DispatchStart(1, c.image, c.is_public, c.vos, c.kwargs)
    \/ ListImages(1)
    \/ DeleteStale(1)
    \/ Convert(1)
    \/ Create(1)
    \/ Upload(1)
    \/ SetVisibility(1)
    \/ ShareVo(1)
    \/ CleanBegin(1)
    \/ CleanMembers(1)
    \/ CleanRemove(1)
    \/ CleanEnd(1)

SpecDispatch == InitDispatch /\ [][NextDispatch]_vars

----------------------------------------------------------------------------
(* Properties of dispatch *)

\* how often a remote call occurs in a call log
Count(calls, c) == Cardinality({k \in DOMAIN calls : calls[k] = c})

\* the place of the first occurrence of a remote call in a call log, 0 if none
First(calls, c) ==
    LET K == {k \in DOMAIN calls : calls[k] = c} IN
    IF K = {} THEN 0 ELSE CHOOSE k \in K : \A m \in K : k <= m

\* the dispatch in progress (or just ended) repeats the one before it
SameCall ==
    /\ last.ran
    /\ disp[1].pc # "idle"
    /\ disp[1].image = last.image
    /\ disp[1].is_public = last.is_public
    /\ disp[1].vos = last.vos
    /\ disp[1].kwargs = last.kwargs

\* after the dispatch before, the identifier had exactly one managed entry,
\* and it carried the descriptor's hash
OneEntry ==
    /\ Cardinality(last.ids) = 1
    /\ \A id \in last.ids : disp[1].before[id].image_hash = disp[1].image.hash

\* C1: dispatch is idempotent. When the same call (same descriptor, is_public,
\* vos, properties) is made twice in a row, then: a first dispatch that completed
\* left exactly one managed entry for the identifier; when it left one, the
\* second dispatch issues no create_image and no delete_image and the identifier
\* keeps that one entry at every point of it; and when both dispatches have
\* completed, the entry's members are those it had after the first.
C1_DispatchIdempotent ==
    SameCall =>
        /\ last.outcome = "done" => OneEntry
        /\ OneEntry =>
              /\ Count(disp[1].calls, "create_image") = 0
              /\ Count(disp[1].calls, "delete_image") = 0
              /\ Lookup(catalog, disp[1].image) = last.ids
        /\ (last.outcome = "done" /\ disp[1].pc = "done") =>
              UNION {catalog[id].members : id \in last.ids} = last.members

\* C1 witness: the second of two identical dispatches has completed, the first
\* had created the entry (id 3 is the first id glance hands out)
C1_Witness ==
    /\ SameCall /\ last.outcome = "done" /\ disp[1].pc = "done"
    /\ last.ids = {3}

\* C1 witness with members: an entry that keeps a member over both dispatches
C1_WitnessMembers ==
    /\ SameCall /\ last.outcome = "done" /\ disp[1].pc = "done"
    /\ last.members # {}

\* C2: when the lookup finds exactly one managed entry for the identifier and
\* its stored hash differs, dispatch issues delete_image once, before any
\* create_image; no create_image is issued unless the delete succeeded; once the
\* delete has succeeded the old entry is gone for the rest of the dispatch, and
\* when the dispatch has completed the identifier's only entry is the new one.
C2_ReplaceOnce ==
    LET d == disp[1] IN
    d.stale # 0 =>
        /\ Count(d.calls, "delete_image") <= 1
        /\ Count(d.calls, "create_image") <= 1
        /\ d.pc = "delete" =>
              Count(d.calls, "delete_image") = 0 /\ Count(d.calls, "create_image") = 0
        /\ d.pc # "delete" => Count(d.calls, "delete_image") = 1
        /\ Count(d.calls, "create_image") = 1 =>
              /\ First(d.calls, "delete_image") < First(d.calls, "create_image")
              /\ d.stale \notin DOMAIN catalog
        /\ d.pc = "done" =>
              /\ d.stale \notin DOMAIN catalog
              /\ d.glance_image.id # d.stale
              /\ Lookup(catalog, d.image) = {d.glance_image.id}
              /\ catalog[d.glance_image.id].image_hash = d.image.hash

\* C2 witness: a dispatch that replaced an entry has completed
C2_Witness ==
    /\ disp[1].pc = "done" /\ disp[1].stale # 0
    /\ Count(disp[1].calls, "create_image") = 1

\* C3: when the lookup finds more than one managed entry with the descriptor's
\* identifier, dispatch ends with DuplicatedImage, the listing is the only
\* remote call it issued, and the catalog is as it was before the dispatch.
C3_DuplicateReported ==
    LET d == disp[1] IN
    (Count(d.calls, "images") > 0 /\ Cardinality(Lookup(d.before, d.image)) > 1) =>
        /\ d.pc = "error"
        /\ d.err = "DuplicatedImage"
        /\ d.calls = <<"images">>
        /\ catalog = d.before

\* C3 witness: a dispatch has ended with DuplicatedImage
C3_Witness ==
    disp[1].pc = "error" /\ disp[1].err = "DuplicatedImage" /\ disp[1].nfound = 2

\* C4: when a key of the caller's extra properties is a key of the computed
\* metadata, dispatch ends with MetadataOverwriteNotSupported without any
\* remote call, and the catalog is as it was before the dispatch.
C4_CollisionBeforeCalls ==
    LET d == disp[1] IN
    (d.pc # "idle" /\ DOMAIN d.kwargs \cap MetadataKeys(d.image) # {}) =>
        /\ d.pc = "error"
        /\ d.err = "MetadataOverwriteNotSupported"
        /\ d.calls = <<>>
        /\ catalog = d.before

\* C4 witness: a dispatch called with the property "name" has ended, in a
\* catalog that holds an entry for its identifier
C4_Witness ==
    /\ disp[1].pc = "error" /\ "name" \in DOMAIN disp[1].kwargs
    /\ Lookup(catalog, disp[1].image) # {}

\* the entry the dispatch in progress has created, if it has
Created(d) ==
    IF Count(d.calls, "create_image") = 1 /\ d.glance_image.id \in DOMAIN catalog
    THEN {catalog[d.glance_image.id]} ELSE {}

\* C9 as amended: the disk_format sent to the catalog is the lower-cased
\* resolved format when that is in the allow-list and "raw" otherwise; the
\* container_format sent is "bare" whatever the disk format, "vmdk" included.
C9_FormatsSent ==
    \A e \in Created(disp[1]) :
        /\ e.disk_format \in AllowedDiskFormats
        /\ Lower(disp[1].fmt) \in AllowedDiskFormats => e.disk_format = Lower(disp[1].fmt)
        /\ Lower(disp[1].fmt) \notin AllowedDiskFormats => e.disk_format = "raw"
        /\ e.container_format = "bare"

\* C9 witness: entries created from an upper-case format, from a vmdk disk and
\* from a format outside the allow-list
C9_Witness ==
    \E e \in Created(disp[1]) :
        /\ e.disk_format = "vmdk" /\ e.container_format = "bare"
        /\ disp[1].image.format = "OVA"

\* C9 as stated: the container_format is "ova" for the disk format "vmdk" and
\* "bare" for every other
C9_AsStated ==
    \A e \in Created(disp[1]) :
        e.container_format = IF e.disk_format = "vmdk" THEN "ova" ELSE "bare"

\* C11: when qemu-img exits with a code other than 0, the dispatch ends with
\* ImageConversionerror carrying that exit code and what qemu-img wrote to
\* stderr, and it has issued neither create_image nor the upload.
C11_ConversionFailureEndsDispatch ==
    \A p \in Procs :
        LET d == disp[p] IN
        (d.qemu /\ d.run.returncode # 0) =>
            /\ d.pc = "error"
            /\ d.err = "ImageConversionerror"
            /\ d.code = d.run.returncode
            /\ d.reason = d.run.stderr
            /\ Count(d.calls, "create_image") = 0
            /\ Count(d.calls, "upload") = 0

\* C11 witness: qemu-img exited with 2 in a dispatch that found no entry
C11_Witness ==
    /\ disp[1].qemu
    /\ disp[1].run = [returncode |-> 2, stderr |-> "e2"]
    /\ disp[1].err = "ImageConversionerror"
    /\ disp[1].nfound = 0

\* the projects the consumers of a dispatch map to
ConsumerProjects(vos) == {ProjectOf(vos[j]) : j \in 1..Len(vos)} \ {""}

\* C19 as stated: a dispatch under the shared model that has ended, and not by
\* a rejected call, a duplicate, a failed conversion or a colliding property,
\* has completed, and every consumer whose project does not own the entry is a
\* member of the entry with status accepted.
C19_AsStated ==
    LET d == disp[1]
        id == d.glance_image.id IN
    (/\ conf.sharing_model = "shared"
     /\ d.pc \in {"done", "error"}
     /\ d.err \notin {"MetadataOverwriteNotSupported", "DuplicatedImage",
                      "HttpException", "ForbiddenException",
                      "ImageConversionerror"}) =>
        /\ d.pc = "done"
        /\ id \in DOMAIN catalog
        /\ \A project \in ConsumerProjects(d.vos) \ {catalog[id].owner} :
              [member_id |-> project, status |-> "accepted"] \in catalog[id].members

\* C20: when a dispatch under the shared model has completed, the clean-up has
\* listed the members once and revoked exactly the listed members that are no
\* consumer project: the entry's members are the listed members that are
\* consumer projects, all of them consumer projects.
C20_StaleMembersRevoked ==
    LET d == disp[1]
        id == d.glance_image.id IN
    (conf.sharing_model = "shared" /\ d.pc = "done") =>
        /\ Count(d.calls, "members") = 1
        /\ Count(d.calls, "remove_member") =
              Cardinality(d.listed \ ConsumerProjects(d.vos))
        /\ id \in DOMAIN catalog
        /\ MemberIds(catalog[id]) = d.listed \cap ConsumerProjects(d.vos)
        /\ MemberIds(catalog[id]) \subseteq ConsumerProjects(d.vos)

\* C20 witness: of the members p0 and p1 of an entry dispatched for vo0 alone,
\* p1 has been revoked and p0 is left
C20_Witness ==
    /\ conf.sharing_model = "shared" /\ disp[1].pc = "done"
    /\ disp[1].vos = <<"vo0">>
    /\ disp[1].listed = {"p0", "p1"}
    /\ MemberIds(catalog[disp[1].glance_image.id]) = {"p0"}

\* the calls a dispatch issues on an entry it has found or created
EntryCalls ==
    {"upload", "update_image", "add_member", "update_member", "members",
     "remove_member"}

\* C21: when create_image is rejected with ForbiddenException, the dispatch
\* ends with that exception; create_image was called once, it is the last call
\* of the dispatch, no upload, update or membership call was issued, and the
\* catalog holds no entry for the identifier that it did not hold before the
\* create.
C21_CreateDenied ==
    LET d == disp[1] IN
    d.err = "ForbiddenException" =>
        /\ d.pc = "error"
        /\ Count(d.calls, "create_image") = 1
        /\ d.calls[Len(d.calls)] = "create_image"
        /\ \A c \in EntryCalls : Count(d.calls, c) = 0
        /\ Lookup(catalog, d.image) \subseteq Lookup(d.before, d.image)

\* C21 witness: the create of a dispatch that found no entry was rejected
C21_Witness ==
    /\ disp[1].pc = "error" /\ disp[1].err = "ForbiddenException"
    /\ disp[1].nfound = 0
    /\ disp[1].calls = <<"images", "create_image">>

\* the dispatch before was abandoned on a failed call to the catalog or in the
\* sharing loop, after the lookup, and left the identifier one entry that
\* carries the descriptor's hash
Abandoned ==
    /\ last.ran /\ last.outcome = "error"
    /\ last.err \in {"HttpException", "ForbiddenException", "TypeError"}
    /\ disp[1].pc # "idle"
    /\ disp[1].image = last.image
    /\ OneEntry

\* the steps of dispatch that follow lines 258-260
PastUpload == {"set_visibility", "share", "clean_begin", "clean_members", "clean_remove",
               "clean_end", "done"}

\* C24: a dispatch of the descriptor of an abandoned dispatch that left one
\* entry with the descriptor's hash issues no create_image and no
\* delete_image, the identifier keeps that one entry at every point of it, it
\* uploads at most once and only to an entry it found queued, and it does not
\* get past lines 258-260 without that upload.
C24_RetryConverges ==
    Abandoned =>
        LET d == disp[1]
            id == CHOOSE i \in last.ids : TRUE IN
        /\ Count(d.calls, "create_image") = 0
        /\ Count(d.calls, "delete_image") = 0
        /\ Lookup(catalog, d.image) = last.ids
        /\ Count(d.calls, "upload") <= 1
        /\ Count(d.calls, "upload") = 1 => d.before[id].status = "queued"
        /\ (d.pc \in PastUpload /\ d.before[id].status = "queued") =>
              /\ Count(d.calls, "upload") = 1
              /\ catalog[id].status = "active"

\* C24 witness: the upload that followed the create failed, and the dispatch
\* after it has found the queued entry, uploaded and completed
C24_Witness ==
    /\ Abandoned
    /\ last.calls = <<"images", "create_image", "upload">>
    /\ disp[1].pc = "done"
    /\ disp[1].calls = <<"images", "upload">>

\* C24 witness: the dispatch before ended in the sharing loop, the dispatch
\* after it found the entry active and uploaded nothing
C24_WitnessSharing ==
    /\ Abandoned
    /\ last.err = "TypeError"
    /\ Count(last.calls, "upload") = 1
    /\ disp[1].pc = "error" /\ disp[1].err = "TypeError"
    /\ disp[1].calls = <<"images">>

\* C25 as stated: when a dispatch has completed, the visibility the catalog
\* holds for its entry is the visibility derived for the dispatch, whether the
\* entry was created, found queued or found active.
C25_AsStated ==
    LET d == disp[1] IN
    d.pc = "done" => catalog[d.glance_image.id].visibility = d.visibility

\* the properties of an entry that are neither its visibility, its members
\* nor its status
Properties(e) ==
    [k \in DOMAIN e \ {"visibility", "members", "status"} |-> e[k]]

\* C26 as stated: when _clean_stale_memberships has been left, by its return
\* or by a failed member listing or revoke, the entry's visibility is the
\* desired one and not the intermediate "shared", and the entry's other
\* properties are those it had before the dispatch.
C26_AsStated ==
    LET d == disp[1]
        id == d.glance_image.id IN
    (d.pc \in {"done", "error"} /\ Count(d.calls, "members") >= 1) =>
        /\ catalog[id].visibility = d.visibility
        /\ id \in DOMAIN d.before => Properties(catalog[id]) = Properties(d.before[id])

\* C30 as stated: a dispatch that has ended with a conversion error leaves
\* the catalog as it was when the dispatch began; an entry the identifier had
\* then, whatever its stored hash, is still there.
C30_AsStated ==
    LET d == disp[1] IN
    (d.pc = "error" /\ d.err = "ImageConversionerror") =>
        /\ catalog = d.before
        /\ Lookup(d.before, d.image) \subseteq Lookup(catalog, d.image)

----------------------------------------------------------------------------
(* Two dispatchers on one catalog: dispatch holds no lock and the catalog
   accepts duplicates (create_image(..., allow_duplicates=True)), so the
   remote calls of two dispatches interleave freely *)

\* the calls the two dispatchers make: one identifier, two contents
RaceInputs ==
    {c \in DispatchInputs :
        /\ c.image \in {Descriptor("h1", "QCOW2"), Descriptor("h2", "QCOW2")}
        /\ <<c.is_public, c.vos>> # <<TRUE, <<>>>>
        /\ "name" \notin DOMAIN c.kwargs}

\* the catalogs the two dispatchers start on: no entry yet, or the image
\* shared with other projects
RaceCatalogs ==
    { <<>>, <<Found({Tag}, "a", "h1", "active", "shared", {"p0", "p1"})>> }

InitRace ==
    /\ catalog \in RaceCatalogs
    /\ nextId = Len(catalog) + 1
    /\ files = {}
    /\ conf \in Confs
    /\ disp = [p \in Procs |-> IdleDisp]
    /\ last = NoRun
    /\ runs = 0
    /\ faults = 0
    /\ syn = NoSync
    /\ dl = NoDownload
    /\ sel = NoSelect
    /\ cv = NoConvert
    /\ hb = NoSource

NextRace ==
    \E p \in Procs :
        \/ \E c \in RaceInputs :
               DispatchStart(p, c.image, c.is_public, c.vos, c.kwargs)
        \/ ListImages(p)
        \/ DeleteStale(p)
        \/ Convert(p)
        \/ Create(p)
        \/ Upload(p)
        \/ SetVisibility(p)
        \/ ShareVo(p)
        \/ CleanBegin(p)
        \/ CleanMembers(p)
        \/ CleanRemove(p)
        \/ CleanEnd(p)

SpecRace == InitRace /\ [][NextRace]_vars

\* a dispatch that has looked the identifier up, holds no entry and has its
\* create still ahead
CreateInFlight(p) ==
    /\ disp[p].pc \in {"delete", "convert", "create"}
    /\ disp[p].pc = "delete" \/ disp[p].glance_image = NoImage

\* both dispatchers have started a dispatch of the identifier while the
\* catalog held no entry for it
BothStartedOnNoEntry ==
    \A p \in Procs :
        /\ disp[p].pc # "idle"
        /\ Lookup(disp[p].before, disp[p].image) = {}

\* C22: as stated, of two interleaved dispatches of one identifier that
\* started while no entry existed at most one has a create or replace in
\* flight, and the catalog never holds two managed entries for the identifier.
C22_AsStated ==
    BothStartedOnNoEntry =>
        /\ ~(CreateInFlight(1) /\ CreateInFlight(2))
        /\ Cardinality(Lookup(catalog, Descriptor("h1", "QCOW2"))) <= 1

----------------------------------------------------------------------------
(* Dispatcher.sync *)

MaxSyncEntries == 3     \* entries in the catalog sync starts from

\* a set of ids as the sequence the listing yields them in
RECURSIVE Listing(_)
Listing(S) ==
    IF S = {} THEN <<>>
    ELSE LET id == CHOOSE x \in S : \A y \in S : x <= y
         IN <<id>> \o Listing(S \ {id})

\* the loop without the managed entries of every image list, not only this one
SyncTargetsAnyList(cat, name, valid) ==
    {id \in DOMAIN cat : Tag \in cat[id].tags /\ cat[id].appdb_id \notin valid}

\* lines 301-305: of the images listed by tag, those of this image list whose
\* appdb_id is not a valid identifier
SyncTargets(cat, name, valid) ==
    {id \in DOMAIN cat :
        /\ Tag \in cat[id].tags
        /\ cat[id].image_list = name
        /\ cat[id].appdb_id \notin valid}

\* lines 300-305: the valid identifiers, the listing, the entries to retire
SyncStart(name, valid) ==
    /\ syn.pc = "idle"
    /\ LET todo == Listing(SyncTargets(catalog, name, valid)) IN
       syn' = [syn EXCEPT !.pc = IF todo = <<>> THEN "done" ELSE "delete",
                          !.name = name, !.valid = valid, !.todo = todo,
                          !.before = catalog, !.calls = <<"images">>]
    /\ UNCHANGED <<catalog, nextId, files, conf, disp, last, runs, faults, dl, sel, cv, hb>>

\* sync after the entry at the head of todo is dealt with
SyncAdvance(calls) ==
    syn' = [syn EXCEPT !.todo = Tail(@), !.calls = calls,
                       !.pc = IF Tail(syn.todo) = <<>> THEN "done" ELSE "delete"]

\* a rejected delete taken as done: the entry is left as it is
SyncDeleteLenient ==
    /\ syn.pc = "delete"
    /\ \E r \in {"ok", "HttpException"} :
         LET id == Head(syn.todo) IN
         /\ r # "ok" => faults < MaxFaults
         /\ faults' = IF r # "ok" THEN faults + 1 ELSE faults
         /\ catalog' = IF r = "ok" THEN Without(catalog, id) ELSE catalog
         /\ SyncAdvance(Append(syn.calls, "delete_image"))
    /\ UNCHANGED <<nextId, files, conf, disp, last, runs, dl, sel, cv, hb>>

\* lines 309-317: delete_image; an HttpException leads to the demotion, any
\* other exception leaves sync
SyncDelete ==
    /\ syn.pc = "delete"
    /\ \E r \in {"ok", "HttpException", "SDKException"} :
         LET id == Head(syn.todo)
             calls == Append(syn.calls, "delete_image") IN
         /\ r # "ok" => faults < MaxFaults
         /\ faults' = IF r # "ok" THEN faults + 1 ELSE faults
         /\ CASE r = "ok" ->
                   /\ catalog' = Without(catalog, id)
                   /\ SyncAdvance(calls)
              [] r = "HttpException" ->
                   /\ syn' = [syn EXCEPT !.pc = "demote", !.calls = calls]
                   /\ UNCHANGED catalog
              [] OTHER ->
                   /\ syn' = [syn EXCEPT !.pc = "error", !.err = r, !.calls = calls]
                   /\ UNCHANGED catalog
    /\ UNCHANGED <<nextId, files, conf, disp, last, runs, dl, sel, cv, hb>>

\* line 318: update_image(image.id, visibility="private")
SyncDemote ==
    /\ syn.pc = "demote"
    /\ \E ok \in BOOLEAN :
         LET id == Head(syn.todo)
             calls == Append(syn.calls, "update_image") IN
         /\ Answer(ok, id)
         /\ IF ok
            THEN /\ catalog' = SetVis(catalog, id, "private")
                 /\ syn' = [syn EXCEPT !.pc = "deactivate", !.calls = calls]
            ELSE /\ syn' = [syn EXCEPT !.pc = "error", !.err = "HttpException",
                                       !.calls = calls]
                 /\ UNCHANGED catalog
    /\ UNCHANGED <<nextId, files, conf, disp, last, runs, dl, sel, cv, hb>>

\* line 319: deactivate_image(image.id); glance deactivates an active entry
\* and rejects the call for an entry that holds no content
SyncDeactivate ==
    /\ syn.pc = "deactivate"
    /\ \E ok \in BOOLEAN :
         LET id == Head(syn.todo)
             calls == Append(syn.calls, "deactivate_image")
             allowed == catalog[id].status \in {"active", "deactivated"} IN
         /\ IF allowed THEN Answer(ok, id) ELSE ~ok /\ UNCHANGED faults
         /\ IF ok
            THEN /\ catalog' = [catalog EXCEPT ![id].status = "deactivated"]
                 /\ SyncAdvance(calls)
            ELSE /\ syn' = [syn EXCEPT !.pc = "error", !.err = "HttpException",
                                       !.calls = calls]
                 /\ UNCHANGED catalog
    /\ UNCHANGED <<nextId, files, conf, disp, last, runs, dl, sel, cv, hb>>

\* the entries sync may find: of this image list with identifier a or b, active
\* or awaiting content; of another image list; without the dispatcher's tag
SyncEntries ==
    { Found({Tag}, "a", "h1", "active", "shared", {"p1"}),
      Found({Tag}, "b", "h1", "active", "public", {}),
      Found({Tag}, "b", "h2", "queued", "community", {}),
      [Found({Tag}, "a", "h1", "active", "community", {}) EXCEPT !.image_list = "list2"],
      Found({}, "a", "h1", "active", "public", {}) }

InitSync ==
    /\ \E n \in 1..MaxSyncEntries : catalog \in [1..n -> SyncEntries]
    /\ nextId = MaxSyncEntries + 1
    /\ files = {}
    /\ conf = [sharing_model |-> "shared", formats |-> <<>>]
    /\ disp = [p \in Procs |-> IdleDisp]
    /\ last = NoRun
    /\ runs = 0
    /\ faults = 0
    /\ syn = NoSync
    /\ dl = NoDownload
    /\ sel = NoSelect
    /\ cv = NoConvert
    /\ hb = NoSource

\* sync(image_list) of the image list list1, whose valid subscribed images are
\* any of a and b
NextSync ==
    \/ \E valid \in SUBSET {"a", "b"} : SyncStart("list1", valid)
    \/ SyncDelete
    \/ SyncDemote
    \/ SyncDeactivate

SpecSync == InitSync /\ [][NextSync]_vars

\* the entries sync is to retire: tagged, of this image list, not valid
Retired(id) ==
    /\ Tag \in syn.before[id].tags
    /\ syn.before[id].image_list = syn.name
    /\ syn.before[id].appdb_id \notin syn.valid

\* C5: when sync has completed, every managed entry of the image list whose
\* identifier is not valid is deleted, or (its deletion rejected) is private and
\* deactivated; none is left active.
C5_SyncRetires ==
    syn.pc = "done" =>
        \A id \in DOMAIN syn.before :
            Retired(id) =>
                \/ id \notin DOMAIN catalog
                \/ /\ catalog[id].visibility = "private"
                   /\ catalog[id].status = "deactivated"

\* C5 witness: sync has completed with one entry deleted and another, whose
\* deletion was rejected, private and deactivated
C5_Witness ==
    /\ syn.pc = "done"
    /\ \E id \in DOMAIN syn.before : Retired(id) /\ id \notin DOMAIN catalog
    /\ \E id \in DOMAIN syn.before :
           /\ Retired(id) /\ id \in DOMAIN catalog
           /\ syn.before[id].visibility # "private"
           /\ catalog[id].status = "deactivated"

\* C6: at every point of sync, an entry without the tag, of another image
\* list, or with a valid identifier is in the catalog as it was before sync.
C6_SyncFrame ==
    syn.pc # "idle" =>
        \A id \in DOMAIN syn.before :
            ~Retired(id) => id \in DOMAIN catalog /\ catalog[id] = syn.before[id]

\* C6 witness: sync has completed, it retired an entry and kept one of another
\* image list
C6_Witness ==
    /\ syn.pc = "done"
    /\ \E id \in DOMAIN syn.before : Retired(id) /\ id \notin DOMAIN catalog
    /\ \E id \in DOMAIN catalog :
           Tag \in catalog[id].tags /\ catalog[id].image_list # syn.name

----------------------------------------------------------------------------
(* HepixImage.download, HepixImage._download, BaseImage.verify_checksum *)

MaxDownloads == 3       \* calls of download per behaviour

\* os.path.join(basedir, self.identifier)
Location == "basedir/a"

\* the hexdigest of a file; what is on disk is modelled by its digest, "none"
\* for no file and "empty" for a file just opened for writing
get_file_checksum(file) == file

\* verify_checksum, line 118: sha512.hexdigest() != self.sha512 raises
ChecksumOk(file, sha512) == get_file_checksum(file) = sha512

\* download(basedir), lines 265-286 up to a call of _download. fresh: the
\* descriptor is a new object of this pass, not the one of the call before.
DownloadCall(fresh) ==
    /\ dl.pc \in {"ready", "done", "error"}
    /\ dl.n < MaxDownloads
    /\ LET d == [dl EXCEPT !.n = @ + 1, !.fetches = 0, !.err = "", !.found = dl.file,
                           !.location = IF fresh THEN "" ELSE @,
                           !.verified = IF fresh THEN FALSE ELSE @]
       IN IF d.expired
          THEN dl' = [d EXCEPT !.pc = "error", !.err = "ImageExpired"]
          ELSE IF d.location # ""
          THEN dl' = [d EXCEPT !.pc = "error", !.err = "ImageAlreadyDownloaded"]
          ELSE IF d.file = "none"
          THEN dl' = [d EXCEPT !.pc = "fetch"]
          ELSE IF ChecksumOk(d.file, d.sha512)
          THEN dl' = [d EXCEPT !.pc = "done", !.verified = TRUE, !.location = Location]
          ELSE dl' = [d EXCEPT !.pc = "fetch"]
    /\ UNCHANGED <<catalog, nextId, files, conf, disp, last, runs, faults, syn, sel, cv, hb>>

\* what the source serves: the bytes of either digest, or no answer, or an
\* answer that is not ok
Responses == {"h1", "h2", "exception", "not ok"}

\* a _download that is called again when its verification fails
FetchRetrying ==
    /\ dl.pc = "fetch"
    /\ \E r \in Responses :
         IF r \in {"exception", "not ok"}
         THEN dl' = [dl EXCEPT !.pc = "error", !.err = "ImageDownloadFailed",
                               !.fetches = @ + 1, !.file = "empty"]
         ELSE IF ChecksumOk(r, dl.sha512)
         THEN dl' = [dl EXCEPT !.pc = "done", !.fetches = @ + 1, !.file = r,
                               !.verified = TRUE, !.location = Location]
         ELSE dl' = [dl EXCEPT !.pc = IF dl.fetches < 2 THEN "fetch" ELSE "error",
                               !.err = IF dl.fetches < 2 THEN "" ELSE "ImageVerificationFailed",
                               !.fetches = @ + 1, !.file = r]
    /\ UNCHANGED <<catalog, nextId, files, conf, disp, last, runs, faults, syn, sel, cv, hb>>

\* _download(location), lines 226-262, and lines 288-289 of download after it:
\* the file is opened for writing, the response written to it and verified
Fetch ==
    /\ dl.pc = "fetch"
    /\ \E r \in Responses :
         IF r \in {"exception", "not ok"}
         THEN dl' = [dl EXCEPT !.pc = "error", !.err = "ImageDownloadFailed",
                               !.fetches = @ + 1, !.file = "empty"]
         ELSE IF ChecksumOk(r, dl.sha512)
         THEN dl' = [dl EXCEPT !.pc = "done", !.fetches = @ + 1, !.file = r,
                               !.verified = TRUE, !.location = Location]
         ELSE dl' = [dl EXCEPT !.pc = "error", !.err = "ImageVerificationFailed",
                               !.fetches = @ + 1, !.file = r]
    /\ UNCHANGED <<catalog, nextId, files, conf, disp, last, runs, faults, syn, sel, cv, hb>>

\* a feed-based descriptor just built, and what the cache directory holds at
\* its location; the feed's sha512 may be written in upper case
InitDownload ==
    /\ catalog = <<>>
    /\ nextId = 1
    /\ files = {}
    /\ conf = [sharing_model |-> "shared", formats |-> <<>>]
    /\ disp = [p \in Procs |-> IdleDisp]
    /\ last = NoRun
    /\ runs = 0
    /\ faults = 0
    /\ syn = NoSync
    /\ \E expired \in BOOLEAN, sha512 \in {"h1", "h2", "H1"}, file \in {"none", "empty", "h1", "h2"} :
         dl = [NoDownload EXCEPT !.pc = "ready", !.expired = expired,
                                 !.sha512 = sha512, !.file = file]
    /\ sel = NoSelect
    /\ cv = NoConvert
    /\ hb = NoSource

NextDownload ==
    \/ \E fresh \in BOOLEAN : DownloadCall(fresh)
    \/ Fetch

SpecDownload == InitDownload /\ [][NextDownload]_vars

\* the call of download found a file at the location that fails verification
CachedBad == dl.found # "none" /\ dl.found # dl.sha512

\* C7: a call of download makes at most one _download; when it found a cached
\* file whose checksum does not match (and the descriptor is neither expired
\* nor downloaded already) it makes exactly one; and when the call ends with
\* ImageVerificationFailed, that one _download was made and the descriptor has
\* no location and is not verified.
C7_OneRedownload ==
    /\ dl.fetches <= 1
    /\ (CachedBad /\ dl.pc \in {"done", "error"}
            /\ dl.err \notin {"ImageExpired", "ImageAlreadyDownloaded"}) => dl.fetches = 1
    /\ (dl.pc = "error" /\ dl.err = "ImageVerificationFailed") =>
          /\ dl.fetches = 1
          /\ dl.location = ""
          /\ ~dl.verified

\* C7 witness: the cached file did not match, the file downloaded again did
\* not match either, and the call has ended with ImageVerificationFailed
C7_Witness ==
    /\ CachedBad /\ dl.found \in {"h1", "h2"}
    /\ dl.pc = "error" /\ dl.err = "ImageVerificationFailed"
    /\ dl.file # dl.sha512

\* C29 as stated, for the feed-based descriptor: when a call of download has
\* ended with ImageVerificationFailed, no file is left at the location, and
\* the descriptor has no location and is not verified.
C29_AsStated ==
    (dl.pc = "error" /\ dl.err = "ImageVerificationFailed") =>
        /\ get_file_checksum(dl.file) = "none"
        /\ dl.location = ""
        /\ ~dl.verified

----------------------------------------------------------------------------
(* HarborImageListSource._process_artifact: the selection of the tag *)

MaxTags == 3            \* tags of an artifact

\* Names are sequences of characters. A tag pattern is modelled by the literal
\* prefix it anchors ("^v" by <<"v">>); no pattern (None, or "") by <<>>.
v1 == <<"v", "1">>
v2 == <<"v", "2">>
latest == <<"l", "a", "t">>
d1 == <<"s", "h", "a", "1">>

\* self.tag_pattern_re.match(tag_name): a match at the start of the name
Match(pattern, tag_name) ==
    /\ Len(pattern) <= Len(tag_name)
    /\ \A k \in 1..Len(pattern) : pattern[k] = tag_name[k]

\* the filters asked in the other order: the pattern before the subscriptions
ProcessThisTagPatternFirst(tag_name, digest, subscribed_images, tag_pattern) ==
    IF tag_pattern # <<>>
    THEN Match(tag_pattern, tag_name)
    ELSE IF subscribed_images # {}
    THEN tag_name \in subscribed_images \/ digest \in subscribed_images
    ELSE TRUE

\* lines 204-215: process_this_tag
ProcessThisTag(tag_name, digest, subscribed_images, tag_pattern) ==
    IF subscribed_images # {}
    THEN tag_name \in subscribed_images \/ digest \in subscribed_images
    ELSE IF tag_pattern # <<>>
    THEN Match(tag_pattern, tag_name)
    ELSE subscribed_images = {} /\ tag_pattern = <<>>

\* lines 192-218: the loop over the artifact's tags, left at the first tag that
\* is to be processed; <<>> for matching_tag = None
RECURSIVE MatchingTag(_, _, _, _)
MatchingTag(tags, digest, subscribed_images, tag_pattern) ==
    IF tags = <<>> THEN <<>>
    ELSE LET tag_name == Head(tags) IN
         IF tag_name # <<>>
            /\ ProcessThisTag(tag_name, digest, subscribed_images, tag_pattern)
         THEN tag_name
         ELSE MatchingTag(Tail(tags), digest, subscribed_images, tag_pattern)

\* _process_artifact up to line 219
SelectTag ==
    /\ sel.pc = "ready"
    /\ sel' = [sel EXCEPT !.pc = "done",
                          !.matching_tag = MatchingTag(sel.tags, sel.digest,
                                               sel.subscribed_images, sel.tag_pattern)]
    /\ UNCHANGED <<catalog, nextId, files, conf, disp, last, runs, faults, syn, dl, cv, hb>>

\* the names a tag of an artifact may have; a tag may come without a name
TagNames == {v1, v2, latest, <<>>}

\* the tag lists of an artifact: up to MaxTags tags, each name once
TagLists ==
    UNION {{t \in [1..n -> TagNames] : \A j, k \in 1..n : j # k => t[j] # t[k]} :
              n \in 0..MaxTags}

InitSelect ==
    /\ catalog = <<>>
    /\ nextId = 1
    /\ files = {}
    /\ conf = [sharing_model |-> "shared", formats |-> <<>>]
    /\ disp = [p \in Procs |-> IdleDisp]
    /\ last = NoRun
    /\ runs = 0
    /\ faults = 0
    /\ syn = NoSync
    /\ dl = NoDownload
    /\ \E tags \in TagLists, subscribed \in {{}, {v1}, {d1}, {latest, v2}},
          pattern \in {<<>>, <<"v">>, <<"l", "a">>} :
         sel = [NoSelect EXCEPT !.pc = "ready", !.tags = tags, !.digest = d1,
                                !.subscribed_images = subscribed,
                                !.tag_pattern = pattern]
    /\ cv = NoConvert
    /\ hb = NoSource

NextSelect == SelectTag

SpecSelect == InitSelect /\ [][NextSelect]_vars

\* the named tags of the artifact that satisfy predicate-by-set Ok, in order
FirstOf(tags, Ok) ==
    LET K == {k \in DOMAIN tags : tags[k] # <<>> /\ tags[k] \in Ok} IN
    IF K = {} THEN <<>> ELSE tags[CHOOSE k \in K : \A m \in K : k <= m]

\* C8: the selected tag is the first named tag of the artifact that passes the
\* filter in force, and the filter in force is: with a subscription list, the
\* tag's name or the artifact's digest is in the list (the pattern is not
\* asked); with only a pattern, the name matches the pattern; with neither,
\* every named tag. With subscriptions {v1} and pattern ^v, tags v1, v2 and
\* latest in any order select v1.
C8_TagPrecedence ==
    sel.pc = "done" =>
        LET named == {sel.tags[k] : k \in DOMAIN sel.tags} \ {<<>>}
            t == sel.matching_tag IN
        /\ sel.subscribed_images # {} =>
              t = FirstOf(sel.tags,
                     IF sel.digest \in sel.subscribed_images THEN named
                     ELSE sel.subscribed_images)
        /\ (sel.subscribed_images = {} /\ sel.tag_pattern # <<>>) =>
              t = FirstOf(sel.tags, {x \in named : Match(sel.tag_pattern, x)})
        /\ (sel.subscribed_images = {} /\ sel.tag_pattern = <<>>) =>
              t = FirstOf(sel.tags, named)
        /\ (sel.subscribed_images = {v1} /\ named = {v1, v2, latest}) => t = v1

\* C8 witness: v1 selected behind v2 and latest, under subscriptions {v1} and
\* the pattern ^v
C8_Witness ==
    /\ sel.pc = "done"
    /\ sel.tags = <<v2, latest, v1>>
    /\ sel.subscribed_images = {v1} /\ sel.tag_pattern = <<"v">>
    /\ sel.matching_tag = v1

----------------------------------------------------------------------------
(* BaseImage.convert, called on its own *)

MaxConverts == 2        \* calls of convert on one descriptor

\* the two kinds of descriptor
Kinds == {"hepix", "harbor"}

\* verify_checksum on a file that matches: BaseImage.verify_checksum (used by
\* HepixImage) ends with self.verified = True, HarborImage.verify_checksum is
\* "pass" and leaves verified as it is
verify_checksum(kind, image) ==
    IF kind = "harbor" THEN image ELSE [image EXCEPT !.verified = TRUE]

\* the download of the original has ended with its check passed
VerifyChecksum ==
    /\ cv.pc # "idle"
    /\ cv.checked = -1
    /\ cv' = [cv EXCEPT !.image = verify_checksum(cv.kind, cv.image), !.checked = cv.n]
    /\ UNCHANGED <<catalog, nextId, files, conf, disp, last, runs, faults, syn, dl, sel, hb>>

\* one call of convert; the log keeps what the call found and did
ConvertImage ==
    /\ cv.pc # "idle"
    /\ cv.n < MaxConverts
    /\ \E qemu_ok \in BOOLEAN :
         LET r == convert(cv.image, cv.dest_formats, files, qemu_ok)
             noop == ConvertIsNoop(get_disk(cv.image), cv.dest_formats)
             call == [qemu |-> r.qemu, err |-> r.err, noop |-> noop,
                      verified |-> cv.image.verified,
                      existed |-> ~noop /\ converted_location(cv.image, cv.dest_formats[1])
                                              \in files] IN
         /\ qemu_ok \/ r.qemu
         /\ files' = r.files
         /\ cv' = [cv EXCEPT !.pc = IF r.err = "" THEN "done" ELSE "error",
                             !.fmt = r.fmt, !.stream = r.stream, !.qemu = r.qemu,
                             !.err = r.err, !.n = cv.n + 1, !.log = Append(@, call)]
    /\ UNCHANGED <<catalog, nextId, conf, disp, last, runs, faults, syn, dl, sel, hb>>

\* the formats a list of accepted formats is drawn from, in both spellings
ConvertFormatLists ==
    {<<>>, <<"qcow2">>, <<"QCOW2">>, <<"raw", "qcow2">>, <<"vmdk">>, <<"raw">>}

InitConvert ==
    /\ catalog = <<>>
    /\ nextId = 1
    /\ files = {}
    /\ conf = [sharing_model |-> "shared", formats |-> <<>>]
    /\ disp = [p \in Procs |-> IdleDisp]
    /\ last = NoRun
    /\ runs = 0
    /\ faults = 0
    /\ syn = NoSync
    /\ dl = NoDownload
    /\ sel = NoSelect
    /\ hb = NoSource
    /\ \E format \in {"QCOW2", "qcow2", "OVA", "RAW"}, kind \in Kinds,
          dest_formats \in ConvertFormatLists :
         cv = [NoConvert EXCEPT !.pc = "ready", !.kind = kind,
                                !.image = [Descriptor("h1", format) EXCEPT
                                               !.verified = FALSE],
                                !.dest_formats = dest_formats]

NextConvert == VerifyChecksum \/ ConvertImage

SpecConvert == InitConvert /\ [][NextConvert]_vars

\* the formats of a list
Accepted(dest_formats) == {dest_formats[i] : i \in DOMAIN dest_formats}

\* C10: convert is a no-op, returning the native disk format as the descriptor
\* spells it and the native disk stream without running the converter, when
\* the accepted list is empty or holds the lower-cased native disk format; in
\* every other case it ends with a conversion error after running the
\* converter, or returns the first accepted format with the converted file.
C10_ConvertNoop ==
    cv.n > 0 =>
        LET native == get_disk(cv.image) IN
        IF cv.dest_formats = <<>> \/ Lower(native) \in Accepted(cv.dest_formats)
        THEN /\ cv.pc = "done"
             /\ cv.fmt = native
             /\ cv.stream = <<cv.image.identifier>>
             /\ ~cv.qemu
        ELSE \/ /\ cv.pc = "done"
                /\ cv.fmt = cv.dest_formats[1]
                /\ cv.stream = <<cv.image.identifier, cv.dest_formats[1]>>
                /\ cv.stream \in files
             \/ /\ cv.pc = "error"
                /\ cv.err = "ImageConversionerror"
                /\ cv.qemu

\* C10 witness: a native QCOW2 disk and the accepted list raw, qcow2: a no-op
\* that returns QCOW2
C10_Witness ==
    /\ cv.pc = "done"
    /\ cv.image.format = "QCOW2"
    /\ cv.dest_formats = <<"raw", "qcow2">>
    /\ cv.fmt = "QCOW2"
    /\ ~cv.qemu

\* C10 as stated: the no-op decided by the native disk format itself being in
\* the accepted list, and the first accepted format returned in every other case
C10_AsStated ==
    cv.n > 0 =>
        LET native == get_disk(cv.image) IN
        IF cv.dest_formats = <<>> \/ native \in Accepted(cv.dest_formats)
        THEN /\ cv.pc = "done"
             /\ cv.fmt = native
             /\ cv.stream = <<cv.image.identifier>>
             /\ ~cv.qemu
        ELSE cv.pc = "done" => cv.fmt = cv.dest_formats[1]

\* C27 as stated: a call of convert that has to convert skips qemu-img exactly
\* when the descriptor is verified and the converted file exists; and when
\* the original was downloaded and checked before the first convert, and that
\* convert returned, the second convert to the same format does not run
\* qemu-img.
C27_AsStated ==
    /\ \A i \in DOMAIN cv.log :
          ~cv.log[i].noop => (~cv.log[i].qemu <=> (cv.log[i].verified /\ cv.log[i].existed))
    /\ (cv.checked = 0 /\ Len(cv.log) = 2 /\ cv.log[1].err = "") => ~cv.log[2].qemu

----------------------------------------------------------------------------
(* get_subscribed_images and get_valid_subscribed_images *)

MaxListed == 2          \* descriptors in a source's image_list

\* harbor.py 364-380. image_list is [] from __init__ on, never None, so the
\* "has not been fetched" branch returns what the branches after it return.
get_subscribed_images(source) ==
    LET Subscribed(img) == img.identifier \in source.subscribed_images IN
    IF ~source.enabled THEN <<>>
    ELSE IF source.subscribed_images = {} THEN source.image_list
    ELSE SelectSeq(source.image_list, Subscribed)

\* the filter without the test of expired
get_valid_subscribed_imagesUnexpiring(source) ==
    LET Valid(i) == i.verified IN
    SelectSeq(get_subscribed_images(source), Valid)

\* [i for i in self.get_subscribed_images() if i.verified and not i.expired]
get_valid_subscribed_images(source) ==
    LET Valid(i) == i.verified /\ ~i.expired IN
    SelectSeq(get_subscribed_images(source), Valid)

\* image_list.get_valid_subscribed_images(), as sync and the dispatch loop call it
GetValid ==
    /\ hb.pc = "listed"
    /\ hb' = [hb EXCEPT !.pc = "valid", !.valid = get_valid_subscribed_images(hb)]
    /\ UNCHANGED <<catalog, nextId, files, conf, disp, last, runs, faults, syn, dl, sel, cv>>

\* the descriptors of an image_list, as far as the filters read them
ListedImages == [identifier : {"a", "b"}, verified : BOOLEAN, expired : BOOLEAN]

InitValid ==
    /\ catalog = <<>>
    /\ nextId = 1
    /\ files = {}
    /\ conf = [sharing_model |-> "shared", formats |-> <<>>]
    /\ disp = [p \in Procs |-> IdleDisp]
    /\ last = NoRun
    /\ runs = 0
    /\ faults = 0
    /\ syn = NoSync
    /\ dl = NoDownload
    /\ sel = NoSelect
    /\ cv = NoConvert
    /\ \E enabled \in BOOLEAN, subscribed \in {{}, {"a"}, {"b", "c"}},
          image_list \in UNION {[1..n -> ListedImages] : n \in 0..MaxListed} :
         hb = [NoSource EXCEPT !.pc = "listed", !.enabled = enabled,
                               !.subscribed_images = subscribed,
                               !.image_list = image_list]

NextValid == GetValid

SpecValid == InitValid /\ [][NextValid]_vars

\* how many times a descriptor occurs in a list
Occurs(list, img) == Cardinality({k \in DOMAIN list : list[k] = img})

\* C12: the valid set holds no expired and no unverified descriptor, and for an
\* enabled source it holds exactly the descriptors of the image list that are
\* subscribed (no subscription list, or the identifier in it), verified and
\* not expired, each as often as the list holds it; a disabled source has none.
C12_ValidIffVerifiedUnexpired ==
    hb.pc = "valid" =>
        /\ \A k \in DOMAIN hb.valid : hb.valid[k].verified /\ ~hb.valid[k].expired
        /\ \A img \in ListedImages :
              Occurs(hb.valid, img) =
                 IF /\ hb.enabled
                    /\ hb.subscribed_images = {} \/ img.identifier \in hb.subscribed_images
                    /\ img.verified /\ ~img.expired
                 THEN Occurs(hb.image_list, img) ELSE 0

\* C12 witness: of a verified expired descriptor and a verified unexpired one,
\* the unexpired one alone is valid
C12_Witness ==
    /\ hb.pc = "valid"
    /\ hb.image_list = <<[identifier |-> "a", verified |-> TRUE, expired |-> TRUE],
                         [identifier |-> "b", verified |-> TRUE, expired |-> FALSE]>>
    /\ hb.valid = <<[identifier |-> "b", verified |-> TRUE, expired |-> FALSE]>>

----------------------------------------------------------------------------
(* HepixImage.__init__ and HepixImage._check_expiry *)

\* field_map, in the order of the dict: <<field of the feed, attribute>>
field_map ==
    <<<<"ad:group", "group">>, <<"ad:mpuri", "mpuri">>,
      <<"ad:user:fullname", "user_fullname">>, <<"ad:user:guid", "user_guid">>,
      <<"ad:user:uri", "user_uri">>, <<"dc:description", "description">>,
      <<"dc:identifier", "identifier">>, <<"dc:title", "title">>,
      <<"hv:hypervisor", "hypervisor">>, <<"hv:format", "format">>,
      <<"hv:size", "size">>, <<"hv:uri", "uri">>, <<"hv:version", "version">>,
      <<"sl:arch", "arch">>, <<"sl:checksum:sha512", "sha512">>,
      <<"sl:comments", "comments">>, <<"sl:os", "os">>, <<"sl:osname", "osname">>,
      <<"sl:osversion", "osversion">>>>

\* required_fields = field_map.keys()
required_fields == {field_map[i][1] : i \in DOMAIN field_map}

None == "None"

\* image_dict.get(i, None)
Get(image_dict, i) == IF i \in DOMAIN image_dict THEN image_dict[i] ELSE None

\* a timestamp: t is the year, aware whether it carries a time zone
Now == [t |-> 2026, aware |-> TRUE]

\* dateutil.parser.parse on the date strings of the model: a string without a
\* zone gives a naive timestamp
Parse(date) ==
    CASE date = "2000-01-01 00:00" -> [t |-> 2000, aware |-> FALSE]
      [] date = "2000-01-01T00:00:00Z" -> [t |-> 2000, aware |-> TRUE]
      [] date = "2100-01-01 00:00" -> [t |-> 2100, aware |-> FALSE]
      [] date = "2100-01-01T00:00:00Z" -> [t |-> 2100, aware |-> TRUE]

\* image_dict.get("dc:date:expires", "2000-01-01 00:00")
ExpiresOf(image_dict) ==
    IF "dc:date:expires" \in DOMAIN image_dict
    THEN image_dict["dc:date:expires"] ELSE "2000-01-01 00:00"

\* self.expires < now: the order of a naive and an aware timestamp is a TypeError
Comparable(a, b) == a.aware = b.aware

\* _check_expiry, for timestamps that can be compared
check_expiry(expires) == expires.t < Now.t

\* the places of the required fields the entry lacks (or holds None for)
Missing(image_dict) == {i \in DOMAIN field_map : Get(image_dict, field_map[i][1]) = None}

\* the attributes lines 203-210 set from an entry that lacks no field
Attrs(image_dict) ==
    [attr \in {field_map[i][2] : i \in DOMAIN field_map} |->
        image_dict[field_map[CHOOSE i \in DOMAIN field_map : field_map[i][2] = attr][1]]]

\* HepixImage(image_info): the required fields in the order of field_map, the
\* first one lacking named by InvalidImageList; then expires and expired. A
\* constructor that raises leaves no descriptor: pc "rejected".
Construct ==
    /\ dl.pc = "new"
    /\ LET d == dl.image_dict
           expires == Parse(ExpiresOf(d)) IN
       IF Missing(d) # {}
       THEN LET i == CHOOSE i \in Missing(d) : \A j \in Missing(d) : i <= j IN
            dl' = [dl EXCEPT !.pc = "rejected", !.err = "InvalidImageList",
                             !.reason = field_map[i][1]]
       ELSE IF ~Comparable(expires, Now)
       THEN dl' = [dl EXCEPT !.pc = "rejected", !.err = "TypeError"]
       ELSE dl' = [dl EXCEPT !.pc = "ready", !.attrs = Attrs(d), !.expires = expires,
                             !.sha512 = Attrs(d).sha512,
                             !.expired = check_expiry(expires)]
    /\ UNCHANGED <<catalog, nextId, files, conf, disp, last, runs, faults, syn, sel, cv, hb>>

\* the value an entry of the feed holds for a field: each field its own value
EntryValue(field, sha512) ==
    CASE field = "sl:checksum:sha512" -> sha512
      [] field = "dc:identifier" -> "a"
      [] OTHER -> field

\* an hv:image dict: the required fields but those of lacking, the fields of
\* nulled with None for value, and dc:date:expires unless expires is ""
Entry(lacking, nulled, expires, sha512) ==
    [field \in (required_fields \ lacking)
               \cup (IF expires = "" THEN {} ELSE {"dc:date:expires"}) |->
        IF field = "dc:date:expires" THEN expires
        ELSE IF field \in nulled THEN None
        ELSE EntryValue(field, sha512)]

\* the entries of a feed: complete ones, ones that lack a field or two, ones
\* with None for a field; with and without an expiry date, with and without zone
Entries ==
    {Entry(lacking, nulled, expires, sha512) :
        lacking \in {{}} \cup {{f} : f \in required_fields}
                         \cup {{"hv:uri", "dc:title"}},
        nulled \in {{}, {"hv:size"}},
        expires \in {"", "2000-01-01 00:00", "2000-01-01T00:00:00Z",
                     "2100-01-01 00:00", "2100-01-01T00:00:00Z"},
        sha512 \in {"h1", "H1"}}

InitHepix ==
    /\ catalog = <<>>
    /\ nextId = 1
    /\ files = {}
    /\ conf = [sharing_model |-> "shared", formats |-> <<>>]
    /\ disp = [p \in Procs |-> IdleDisp]
    /\ last = NoRun
    /\ runs = 0
    /\ faults = 0
    /\ syn = NoSync
    /\ \E image_dict \in Entries, file \in {"none", "h1"} :
         dl = [NoDownload EXCEPT !.pc = "new", !.image_dict = image_dict,
                                 !.file = file]
    /\ sel = NoSelect
    /\ cv = NoConvert
    /\ hb = NoSource

NextHepix ==
    \/ Construct
    \/ \E fresh \in BOOLEAN : DownloadCall(fresh)
    \/ Fetch

SpecHepix == InitHepix /\ [][NextHepix]_vars

\* the required fields an entry has no key for
Lacks(image_dict) == required_fields \ DOMAIN image_dict

\* C13 as stated: once the descriptor of an entry has been built, an entry that
\* lacks exactly one required field has ended with InvalidImageList naming that
\* field and no descriptor, and an entry that has every required field has a
\* descriptor whose attributes hold the values of the mapped fields.
C13_AsStated ==
    dl.pc # "new" =>
        /\ \A f \in required_fields :
              (Lacks(dl.image_dict) = {f}
                 /\ \A g \in DOMAIN dl.image_dict : dl.image_dict[g] # None) =>
                 /\ dl.err = "InvalidImageList"
                 /\ dl.reason = f
                 /\ dl.attrs = <<>>
        /\ Missing(dl.image_dict) = {} =>
              /\ dl.err # "TypeError"
              /\ DOMAIN dl.attrs = {field_map[i][2] : i \in DOMAIN field_map}
              /\ \A i \in DOMAIN field_map :
                    dl.attrs[field_map[i][2]] = dl.image_dict[field_map[i][1]]

\* C14 as stated: an entry with every required field and no dc:date:expires
\* gives a descriptor that is expired, and a call of download on it ends with
\* ImageExpired.
C14_AsStated ==
    (dl.pc # "new" /\ Missing(dl.image_dict) = {}
                   /\ "dc:date:expires" \notin DOMAIN dl.image_dict) =>
        /\ dl.err \notin {"TypeError", "InvalidImageList"}
        /\ dl.expired
        /\ dl.n > 0 => (dl.pc = "error" /\ dl.err = "ImageExpired")

----------------------------------------------------------------------------
(* HarborImageListSource._process_artifact after the selection of the tag *)

Marker == "eu.egi.cloud.tag"

\* a merge in which the artifact's own value wins over the layer's
UpdateKeepingOld(annotations, layer) ==
    [k \in DOMAIN annotations \cup DOMAIN layer |->
        IF k \in DOMAIN annotations THEN annotations[k] ELSE layer[k]]

\* annotations.update(layer): dict.update
Update(annotations, layer) ==
    [k \in DOMAIN annotations \cup DOMAIN layer |->
        IF k \in DOMAIN layer THEN layer[k] ELSE annotations[k]]

\* manifest.get("layers", [{}]): the default holds one layer with nothing in it
Layers(manifest) ==
    IF manifest.has_layers THEN manifest.layers
    ELSE <<[annotations |-> <<>>, digest |-> <<>>]>>

\* lines 222-232: the annotations of the artifact updated with those of the
\* first layer, and the artifact's top-level annotations when that is empty
Resolve(artifact) ==
    LET merged == Update(artifact.extra_attrs, Layers(artifact.manifest)[1].annotations) IN
    IF DOMAIN merged = {} /\ artifact.has_annotations
    THEN artifact.annotations ELSE merged

\* a marker test that lets every artifact pass
HasMarkerAlways(annotations) == TRUE

\* "eu.egi.cloud.tag" not in annotations, negated
HasMarker(annotations) == Marker \in DOMAIN annotations

\* the parameters of HarborImage.__init__ after self
HarborImageParams == <<"image_ref", "annotations", "list_name", "digest">>

\* the positional arguments of the call at lines 245-254
HarborImageCall ==
    <<"image_ref", "registry_host", "auth_user", "auth_password", "annotations",
      "name", "digest", "image_digest">>

\* the binding of the call's arguments: Python raises TypeError for more
\* positional arguments than parameters
Binds(call, params) == Len(call) <= Len(params)

\* self.registry_host
registry_host == "harbor.example.com"

\* f"{image_ref}-{digest}": names are sequences of characters, a repository
\* name stands for its characters
Identifier(image_ref, digest) == image_ref \o <<"-">> \o digest

\* f"{repo_name}:{matching_tag}"
ImageRef(repo_name, matching_tag) == <<repo_name, ":">> \o matching_tag

\* _process_artifact(artifact, repo_name): what it did with the artifact
\* (outcome), the tag it selected, the annotations it resolved, and the
\* descriptors it appended to image_list
process_artifact(source, artifact, repo_name) ==
    LET tag == MatchingTag(artifact.tags, artifact.digest, source.subscribed_images,
                           source.tag_pattern)
        image_ref == ImageRef(repo_name, tag)
        entry == [repo |-> repo_name, artifact |-> artifact, tag |-> tag,
                  outcome |-> "", annotations |-> <<>>, images |-> <<>>] IN
    IF artifact.tags = <<>> THEN [entry EXCEPT !.outcome = "no tags"]
    ELSE IF tag = <<>> THEN [entry EXCEPT !.outcome = "no match"]
    ELSE IF ~artifact.manifest.ok \/ Layers(artifact.manifest) = <<>>
    THEN [entry EXCEPT !.outcome = "exception"]
    ELSE LET annotations == Resolve(artifact) IN
         IF ~HasMarker(annotations)
         THEN [entry EXCEPT !.outcome = "ignored", !.annotations = annotations]
         ELSE IF ~Binds(HarborImageCall, HarborImageParams)
         THEN [entry EXCEPT !.outcome = "exception", !.annotations = annotations]
         ELSE [entry EXCEPT !.outcome = "added", !.annotations = annotations,
                            !.images = <<[identifier |-> Identifier(image_ref, artifact.digest),
                                          verified |-> FALSE, expired |-> FALSE]>>]

----------------------------------------------------------------------------
(* HarborImageListSource.fetch, _process_repository, _fetch_paginated_data *)

PageSize == 1           \* items the registry serves per page
MaxArtifacts == 2       \* artifacts of a repository

\* the pages the registry serves for a list of items
NumPages(items) == (Len(items) + PageSize - 1) \div PageSize

\* the data of page n: empty beyond the last page
PageData(items, n) ==
    SubSeq(items, (n - 1) * PageSize + 1,
           IF n * PageSize < Len(items) THEN n * PageSize ELSE Len(items))

\* the items the listing in progress asks for: the repositories of the
\* project, or the artifacts of repository k
Listed(source) ==
    IF source.pc = "repos" THEN source.registry
    ELSE source.registry[source.k].artifacts

\* the loop of fetch moves to the repository after k, or ends
NextRepository(source) ==
    IF source.k < Len(source.repositories)
    THEN [source EXCEPT !.pc = "artifacts", !.k = @ + 1, !.page = 0, !.results = <<>>,
                        !.listings = Append(@, source.repositories[source.k + 1].name)]
    ELSE [source EXCEPT !.pc = "fetched"]

\* a failed artifact listing that ends the loop over the repositories
ListingFailedAborting(source) ==
    [source EXCEPT !.pc = "fetched", !.error = "ImageListDownloadFailed",
                   !.results = <<>>,
                   !.failed = @ \cup {source.listings[Len(source.listings)]}]

\* _fetch_paginated_data returns None (lines 159-166), and what its caller does
\* with it: fetch returns (lines 324-325), _process_repository returns (294-298)
\* and the loop of fetch goes on
ListingFailed(source) ==
    LET failed == [source EXCEPT !.error = "ImageListDownloadFailed", !.results = <<>>,
                                 !.failed = @ \cup {source.listings[Len(source.listings)]}] IN
    IF source.pc = "repos" THEN [failed EXCEPT !.pc = "fetched"]
    ELSE NextRepository(failed)

\* _fetch_paginated_data returns results, and what its caller does with them
ListingDone(source, results) ==
    LET done == [source EXCEPT !.returned =
                    Append(@, [listing |-> source.listings[Len(source.listings)],
                               results |-> results])] IN
    IF source.pc = "repos"
    THEN NextRepository([done EXCEPT !.repositories = results, !.k = 0])
    ELSE IF results = <<>> THEN NextRepository(done)
    ELSE [done EXCEPT !.pc = "process", !.results = results, !.j = 1]

\* fetch(), lines 310-323, up to the first page of the repositories
FetchStart ==
    /\ hb.pc = "configured"
    /\ IF ~hb.enabled \/ ~hb.configured
       THEN hb' = [hb EXCEPT !.pc = "fetched"]
       ELSE hb' = [hb EXCEPT !.pc = "repos", !.image_list = <<>>, !.error = "",
                             !.page = 0, !.results = <<>>, !.listings = <<"repos">>]
    /\ UNCHANGED <<catalog, nextId, files, conf, disp, last, runs, faults, syn, dl, sel, cv>>

\* the Link headers the registry may send with page n: a rel="next" link while
\* pages follow, with or without one on the last page, none on an empty page
Links(items, n) ==
    IF n < NumPages(items) THEN {TRUE}
    ELSE IF PageData(items, n) = <<>> THEN {FALSE}
    ELSE BOOLEAN

\* a loop that goes on to the next page whatever the Link header says
FurtherPageAlways(data, link) == data # <<>>

\* lines 142-156 and the loop condition of line 128: a further page is asked
\* for when the page held data and the response carried a rel="next" link
FurtherPage(data, link) == data # <<>> /\ link

\* one turn of the loop of _fetch_paginated_data: the request of a page
FetchPage ==
    /\ hb.pc \in {"repos", "artifacts"}
    /\ \E ok \in BOOLEAN, link \in Links(Listed(hb), hb.page + 1) :
         /\ ~ok => faults < MaxFaults
         /\ ~ok => link
         /\ faults' = IF ok THEN faults ELSE faults + 1
         /\ LET n == hb.page + 1
                data == PageData(Listed(hb), n)
                results == hb.results \o data
                source == [hb EXCEPT !.requests =
                              Append(@, [listing |-> hb.listings[Len(hb.listings)],
                                         page |-> n, ok |-> ok,
                                         data |-> IF ok THEN data ELSE <<>>,
                                         link |-> ok /\ link])] IN
            IF ~ok THEN hb' = ListingFailed(source)
            ELSE IF FurtherPage(data, link)
            THEN hb' = [source EXCEPT !.page = n, !.results = results]
            ELSE hb' = ListingDone(source, results)
    /\ UNCHANGED <<catalog, nextId, files, conf, disp, last, runs, syn, dl, sel, cv>>

\* one turn of the loop of lines 305-306
ProcessArtifact ==
    /\ hb.pc = "process"
    /\ LET r == process_artifact(hb, hb.results[hb.j], hb.repositories[hb.k].name)
           source == [hb EXCEPT !.log = Append(@, r),
                                !.image_list = @ \o r.images] IN
       IF hb.j < Len(hb.results)
       THEN hb' = [source EXCEPT !.j = @ + 1]
       ELSE hb' = NextRepository(source)
    /\ UNCHANGED <<catalog, nextId, files, conf, disp, last, runs, faults, syn, dl, sel, cv>>

\* a manifest with one layer
OneLayer(annotations) ==
    [ok |-> TRUE, has_layers |-> TRUE,
     layers |-> <<[annotations |-> annotations, digest |-> <<"l", "1">>]>>]

\* an artifact of the registry, as the API lists it, with the manifest the
\* registry serves for it
Artifact(digest, tags, extra_attrs, has_annotations, annotations, manifest) ==
    [digest |-> digest, tags |-> tags, extra_attrs |-> extra_attrs,
     has_annotations |-> has_annotations, annotations |-> annotations,
     manifest |-> manifest]

\* the artifacts of the model: the marker at the artifact and a layer that
\* overrides a key; no marker at all; no tags; the marker in the layer only;
\* a manifest without layers and the marker in the top-level annotations; a
\* manifest that cannot be fetched; a manifest with an empty list of layers
Artifacts ==
    {Artifact(d1, <<v1>>, [k1 |-> "a1", k2 |-> "a2"] @@ (Marker :> "m"),
              FALSE, <<>>, OneLayer([k2 |-> "l2", k3 |-> "l3"])),
     Artifact(<<"s", "2">>, <<v2, latest>>, [k1 |-> "a1"], TRUE, (Marker :> "m"),
              OneLayer([k2 |-> "l2"])),
     Artifact(<<"s", "3">>, <<>>, (Marker :> "m"), FALSE, <<>>, OneLayer(<<>>)),
     Artifact(<<"s", "4">>, <<latest, v1>>, [k1 |-> "a1"], FALSE, <<>>,
              OneLayer([k1 |-> "l1"] @@ (Marker :> "m"))),
     Artifact(<<"s", "5">>, <<v1>>, <<>>, TRUE, (Marker :> "m"),
              [ok |-> TRUE, has_layers |-> FALSE, layers |-> <<>>]),
     Artifact(<<"s", "6">>, <<v2>>, (Marker :> "m"), FALSE, <<>>,
              [ok |-> FALSE, has_layers |-> FALSE, layers |-> <<>>]),
     Artifact(<<"s", "7">>, <<v1>>, (Marker :> "m"), FALSE, <<>>,
              [ok |-> TRUE, has_layers |-> TRUE, layers |-> <<>>])}

\* the artifact lists of a repository
ArtifactLists == UNION {[1..n -> Artifacts] : n \in 0..MaxArtifacts}

\* the registries: no repository, one repository, or two of which the second
\* is one of a few
Registries ==
    {<<>>}
    \cup {<<[name |-> "p/r1", artifacts |-> a]>> : a \in ArtifactLists}
    \cup {<<[name |-> "p/r1", artifacts |-> a], [name |-> "p/r2", artifacts |-> b]>> :
             a \in ArtifactLists,
             b \in {t \in ArtifactLists : Len(t) <= 1 /\ \A i \in DOMAIN t : t[i].digest \in {d1, <<"s", "2">>}}}

InitFetch ==
    /\ catalog = <<>>
    /\ nextId = 1
    /\ files = {}
    /\ conf = [sharing_model |-> "shared", formats |-> <<>>]
    /\ disp = [p \in Procs |-> IdleDisp]
    /\ last = NoRun
    /\ runs = 0
    /\ faults = 0
    /\ syn = NoSync
    /\ dl = NoDownload
    /\ sel = NoSelect
    /\ cv = NoConvert
    /\ \E registry \in Registries, subscribed \in {{}, {v1}}, pattern \in {<<>>, <<"v">>},
          on \in {<<TRUE, TRUE>>, <<FALSE, TRUE>>, <<TRUE, FALSE>>} :
         /\ on # <<TRUE, TRUE>> => (subscribed = {} /\ pattern = <<>>)
         /\ hb = [NoSource EXCEPT !.pc = "configured", !.enabled = on[1],
                                  !.configured = on[2], !.registry = registry,
                                  !.subscribed_images = subscribed,
                                  !.tag_pattern = pattern]

NextFetch ==
    \/ FetchStart
    \/ FetchPage
    \/ ProcessArtifact

SpecFetch == InitFetch /\ [][NextFetch]_vars

\* the entries of the log for which lines 222-232 resolved the annotations
Resolved(e) ==
    e.tag # <<>> /\ e.artifact.manifest.ok /\ Layers(e.artifact.manifest) # <<>>

\* the entries of the log for the artifacts of repository r
LogOf(r) == {i \in DOMAIN hb.log : hb.log[i].repo = r}

\* C15: an artifact whose resolved annotations lack eu.egi.cloud.tag is
\* ignored: it adds no descriptor to image_list, the source's error is set by
\* failed listings only, and the artifacts after it in the listing are
\* processed: a repository whose listing did not fail has, when fetch has
\* ended, a log entry for each of its artifacts.
C15_MarkerlessSkipped ==
    /\ \A i \in DOMAIN hb.log :
          LET e == hb.log[i] IN
          (Resolved(e) /\ Marker \notin DOMAIN e.annotations) =>
              /\ e.outcome = "ignored"
              /\ e.images = <<>>
              /\ \A k \in DOMAIN hb.image_list :
                    hb.image_list[k].identifier # Identifier(ImageRef(e.repo, e.tag),
                                                             e.artifact.digest)
    /\ hb.error # "" => hb.failed # {}
    /\ (hb.pc = "fetched" /\ hb.listings # <<>>) =>
          \A k \in DOMAIN hb.repositories :
             LET r == hb.repositories[k] IN
             r.name \notin hb.failed => Cardinality(LogOf(r.name)) = Len(r.artifacts)

\* C15 witness: an artifact without the marker was ignored, the artifact after
\* it was processed, and no error is recorded
C15_Witness ==
    /\ hb.pc = "fetched" /\ hb.error = ""
    /\ Len(hb.log) >= 2
    /\ hb.log[1].outcome = "ignored"
    /\ hb.log[2].outcome # "ignored"

\* C16: the annotations resolved for an artifact hold every key of the
\* artifact's annotations that the first layer does not define, with the
\* artifact's value, and every key of the first layer with the layer's value;
\* they hold no other key unless both are empty.
C16_MergeKeepsArtifactKeys ==
    \A i \in DOMAIN hb.log :
        LET e == hb.log[i]
            own == e.artifact.extra_attrs
            layer == Layers(e.artifact.manifest)[1].annotations IN
        Resolved(e) =>
            /\ \A k \in DOMAIN own \ DOMAIN layer :
                  k \in DOMAIN e.annotations /\ e.annotations[k] = own[k]
            /\ \A k \in DOMAIN layer :
                  k \in DOMAIN e.annotations /\ e.annotations[k] = layer[k]
            /\ DOMAIN own \cup DOMAIN layer # {} =>
                  DOMAIN e.annotations = DOMAIN own \cup DOMAIN layer

\* C16 witness: a layer that overrides k2 and adds k3, an artifact that alone
\* defines k1 and the marker
C16_Witness ==
    \E i \in DOMAIN hb.log :
        /\ Resolved(hb.log[i])
        /\ hb.log[i].artifact.digest = d1
        /\ hb.log[i].annotations =
              [k1 |-> "a1", k2 |-> "l2", k3 |-> "l3"] @@ (Marker :> "m")

\* C17 as stated: an artifact with a selected tag and the marker gives a
\* descriptor, its identifier composed of the registry host, the reference and
\* the digest, and two descriptors of image_list that differ in repository,
\* tag or digest differ in identifier.
C17_AsStated ==
    /\ \A i \in DOMAIN hb.log :
          LET e == hb.log[i] IN
          (Resolved(e) /\ Marker \in DOMAIN e.annotations) =>
              \E k \in DOMAIN hb.image_list :
                 hb.image_list[k].identifier =
                    <<registry_host>> \o Identifier(ImageRef(e.repo, e.tag),
                                                      e.artifact.digest)
    /\ \A i, j \in DOMAIN hb.log :
          (hb.log[i].images # <<>> /\ hb.log[j].images # <<>>
             /\ <<hb.log[i].repo, hb.log[i].tag, hb.log[i].artifact.digest>> #
                <<hb.log[j].repo, hb.log[j].tag, hb.log[j].artifact.digest>>) =>
             hb.log[i].images[1].identifier # hb.log[j].images[1].identifier

\* the items the registry holds for a listing: the repositories of the
\* project, or the artifacts of the repository named
ItemsOf(listing) ==
    IF listing = "repos" THEN hb.registry
    ELSE hb.registry[CHOOSE k \in DOMAIN hb.registry : hb.registry[k].name = listing].artifacts

\* the requests of a listing, in the order they were made
RequestsOf(listing) == SelectSeq(hb.requests, LAMBDA r : r.listing = listing)

\* C28: _fetch_paginated_data asks for page 1 first and for page n + 1 only
\* after a response for page n that held data and carried a rel="next" link;
\* it makes at most one request more than the registry has non-empty pages;
\* and what it returns is the registry's items of the listing, each once, in
\* page order.
C28_Pagination ==
    /\ \A i \in DOMAIN hb.requests :
          LET r == hb.requests[i] IN
          \/ r.page = 1 /\ (i > 1 => hb.requests[i - 1].listing # r.listing)
          \/ /\ i > 1
             /\ hb.requests[i - 1].listing = r.listing
             /\ hb.requests[i - 1].page = r.page - 1
             /\ hb.requests[i - 1].ok
             /\ hb.requests[i - 1].data # <<>>
             /\ hb.requests[i - 1].link
    /\ \A i \in DOMAIN hb.listings :
          Len(RequestsOf(hb.listings[i])) <= NumPages(ItemsOf(hb.listings[i])) + 1
    /\ \A i \in DOMAIN hb.returned :
          LET t == hb.returned[i]
              reqs == RequestsOf(t.listing) IN
          /\ t.results = ItemsOf(t.listing)
          /\ reqs # <<>>
          /\ LET final == reqs[Len(reqs)] IN final.ok /\ (final.data = <<>> \/ ~final.link)

\* C28 witness: a listing of two pages that ended on a response without a
\* link, and one that ended on an empty third page
C28_Witness ==
    /\ hb.pc = "fetched"
    /\ \E i \in DOMAIN hb.returned :
          /\ Len(hb.returned[i].results) = 2
          /\ Len(RequestsOf(hb.returned[i].listing)) = 2
    /\ \E i \in DOMAIN hb.returned :
          /\ Len(hb.returned[i].results) = 2
          /\ Len(RequestsOf(hb.returned[i].listing)) = 3

\* the entries of the log that have a selected tag and whose resolved
\* annotations hold the marker
Selected == {i \in DOMAIN hb.log : Resolved(hb.log[i]) /\ Marker \in DOMAIN hb.log[i].annotations}

\* C23 as stated: every artifact with a selected tag and the marker among its
\* resolved annotations contributes exactly one descriptor, built from the
\* first matching tag, so image_list holds one descriptor per such artifact;
\* an artifact without tags or without a selected tag contributes none.
C23_AsStated ==
    /\ \A i \in Selected :
          LET e == hb.log[i] IN
          /\ Len(e.images) = 1
          /\ e.images[1].identifier = Identifier(ImageRef(e.repo, e.tag), e.artifact.digest)
    /\ Len(hb.image_list) = Cardinality(Selected)
    /\ \A i \in DOMAIN hb.log :
          hb.log[i].tag = <<>> => hb.log[i].images = <<>>

\* what C18 as amended and C18 as stated share: the error is recorded when and
\* only when a listing failed; a failed listing of the repositories ends the
\* discovery with no repository processed; no artifact of a repository whose
\* listing failed is processed
ListingFailureRecorded ==
    /\ hb.listings # <<>> => (hb.error = "ImageListDownloadFailed" <=> hb.failed # {})
    /\ "repos" \in hb.failed =>
          /\ hb.pc = "fetched"
          /\ hb.repositories = <<>> /\ hb.log = <<>> /\ hb.listings = <<"repos">>
    /\ \A r \in hb.failed : LogOf(r) = {}

----------------------------------------------------------------------------
(* The subscription list read twice: by the tag selection of _process_artifact
   and by get_subscribed_images, over the identifier HarborImage.__init__ builds *)

\* HarborImage.__init__(image_ref, annotations, list_name, digest), image.py
\* 295-328, as far as the filters read the descriptor: the identifier is
\* f"{image_ref}-{digest}", verified and expired are False
HarborImage(image_ref, digest) ==
    [identifier |-> Identifier(image_ref, digest), verified |-> FALSE, expired |-> FALSE]

\* the subscription lists: a tag name, a digest, two tag names, and a tag name
\* together with the identifier of the descriptor of that tag
SubscriptionLists ==
    {{v1}, {d1}, {latest, v2}, {v1, HarborImage(ImageRef("p/r1", v1), d1).identifier}}

\* a descriptor built by HarborImage.__init__ for the tag selected, in image_list
NewHarborImage ==
    /\ sel.pc = "done" /\ sel.matching_tag # <<>>
    /\ hb.pc = "discover"
    /\ hb' = [hb EXCEPT !.pc = "listed",
                        !.image_list = Append(@, HarborImage(ImageRef("p/r1", sel.matching_tag),
                                                             sel.digest))]
    /\ UNCHANGED <<catalog, nextId, files, conf, disp, last, runs, faults, syn, dl, sel, cv>>

\* get_subscribed_images(), harbor.py 364-380
GetSubscribed ==
    /\ hb.pc = "listed"
    /\ hb' = [hb EXCEPT !.pc = "subscribed", !.valid = get_subscribed_images(hb)]
    /\ UNCHANGED <<catalog, nextId, files, conf, disp, last, runs, faults, syn, dl, sel, cv>>

InitSubscribed ==
    /\ catalog = <<>>
    /\ nextId = 1
    /\ files = {}
    /\ conf = [sharing_model |-> "shared", formats |-> <<>>]
    /\ disp = [p \in Procs |-> IdleDisp]
    /\ last = NoRun
    /\ runs = 0
    /\ faults = 0
    /\ syn = NoSync
    /\ dl = NoDownload
    /\ cv = NoConvert
    /\ \E tags \in TagLists, subscribed \in SubscriptionLists :
         /\ sel = [NoSelect EXCEPT !.pc = "ready", !.tags = tags, !.digest = d1,
                                   !.subscribed_images = subscribed]
         /\ hb = [NoSource EXCEPT !.pc = "discover", !.subscribed_images = subscribed]

NextSubscribed ==
    \/ SelectTag
    \/ NewHarborImage
    \/ GetSubscribed

SpecSubscribed == InitSubscribed /\ [][NextSubscribed]_vars

C31_AgreeOnIdentifier ==
    /\ hb.pc = "subscribed"
    /\ hb.image_list # <<>>
    /\ hb.valid = hb.image_list

----------------------------------------------------------------------------
(* HarborImage.download, and the valid set of a source that holds the
   descriptor *)

\* os.path.join(basedir, safe_filename)
FinalLocation == "basedir/p_r1_v1-sha1"

\* download(basedir), lines 351-364: an expired descriptor raises; a descriptor
\* with a location whose file exists calls verify_checksum, which is "pass" for
\* a HarborImage, and raises ImageAlreadyDownloaded; otherwise oras is run
PullCall ==
    /\ dl.pc \in {"ready", "done", "error"}
    /\ dl.n < MaxDownloads
    /\ LET d == [dl EXCEPT !.n = @ + 1, !.err = "", !.found = dl.file] IN
       IF d.expired
       THEN dl' = [d EXCEPT !.pc = "error", !.err = "ImageExpired"]
       ELSE IF d.location # "" /\ d.file # "none"
       THEN dl' = [d EXCEPT !.pc = "error", !.err = "ImageAlreadyDownloaded"]
       ELSE dl' = [d EXCEPT !.pc = "pull"]
    /\ UNCHANGED <<catalog, nextId, files, conf, disp, last, runs, faults, syn, sel, cv, hb>>

\* what oras pull and the move into the cache end with: the pulled content
\* stored, a failed pull, an empty pull, or a failed rename
PullOutcomes == {"h1", "h2", "CalledProcessError", "no files", "OSError"}

\* lines 366-398: oras pull into a temporary directory, the largest file moved
\* to the final location, location and locations set
Pull ==
    /\ dl.pc = "pull"
    /\ \E r \in PullOutcomes :
         IF r \in {"CalledProcessError", "no files"}
         THEN dl' = [dl EXCEPT !.pc = "error", !.err = "ImageDownloadFailed"]
         ELSE IF r = "OSError"
         THEN dl' = [dl EXCEPT !.pc = "error", !.err = "AtropeException"]
         ELSE dl' = [dl EXCEPT !.pc = "stored", !.file = r, !.location = FinalLocation]
    /\ UNCHANGED <<catalog, nextId, files, conf, disp, last, runs, faults, syn, sel, cv, hb>>

\* lines 400-422: utils.get_file_checksum(self.location) ends ok, with
\* FileNotFoundError or with another exception; when ok, the SHA-512 of the
\* stored file becomes self.sha512, then
\* verify_checksum(); a file that is gone raises ImageNotFoundOnDisk, any other
\* failure removes the file, resets the descriptor and raises
\* ImageVerificationFailed
Checksum ==
    /\ dl.pc = "stored"
    /\ \E r \in {"ok", "FileNotFoundError", "Exception"} :
         IF r = "ok"
         THEN dl' = [dl EXCEPT !.pc = "done", !.sha512 = get_file_checksum(dl.file),
                               !.verified = verify_checksum("harbor", dl).verified]
         ELSE IF r = "FileNotFoundError"
         THEN dl' = [dl EXCEPT !.pc = "error", !.err = "ImageNotFoundOnDisk",
                               !.file = "none"]
         ELSE dl' = [dl EXCEPT !.pc = "error", !.err = "ImageVerificationFailed",
                               !.file = "none", !.location = "", !.verified = FALSE,
                               !.sha512 = ""]
    /\ UNCHANGED <<catalog, nextId, files, conf, disp, last, runs, faults, syn, sel, cv, hb>>

\* the descriptor as the filters of the source read it
Pulled ==
    [identifier |-> Identifier(ImageRef("p/r1", v1), d1), verified |-> dl.verified,
     expired |-> dl.expired]

\* get_valid_subscribed_images() of the source whose image_list holds the
\* descriptor, called between two downloads
GetValidPulled ==
    /\ dl.pc \in {"done", "error"}
    /\ hb.pc = "listed"
    /\ LET source == [hb EXCEPT !.image_list = <<Pulled>>] IN
       hb' = [source EXCEPT !.pc = "valid", !.valid = get_valid_subscribed_images(source)]
    /\ UNCHANGED <<catalog, nextId, files, conf, disp, last, runs, faults, syn, dl, sel, cv>>

\* a registry-based descriptor just built (location None, sha512 None, not
\* verified), expired or not, in the image_list of its source
InitPull ==
    /\ catalog = <<>>
    /\ nextId = 1
    /\ files = {}
    /\ conf = [sharing_model |-> "shared", formats |-> <<>>]
    /\ disp = [p \in Procs |-> IdleDisp]
    /\ last = NoRun
    /\ runs = 0
    /\ faults = 0
    /\ syn = NoSync
    /\ sel = NoSelect
    /\ cv = NoConvert
    /\ \E expired \in BOOLEAN :
         dl = [NoDownload EXCEPT !.pc = "ready", !.expired = expired]
    /\ \E enabled \in BOOLEAN, subscribed \in {{}, {Identifier(ImageRef("p/r1", v1), d1)}} :
         hb = [NoSource EXCEPT !.pc = "listed", !.enabled = enabled,
                               !.subscribed_images = subscribed]

NextPull ==
    \/ PullCall
    \/ Pull
    \/ Checksum
    \/ GetValidPulled

SpecPull == InitPull /\ [][NextPull]_vars

\* C32 as stated: when the download of a non-expired registry-based descriptor
\* has returned normally, its sha512 is the digest of the file stored at its
\* location and the descriptor is verified; an enabled source that lists it
\* and whose subscription list admits it counts it valid.
C32_AsStated ==
    (dl.pc = "done" /\ ~dl.expired) =>
        /\ dl.location = FinalLocation
        /\ dl.sha512 = get_file_checksum(dl.file)
        /\ dl.verified
        /\ (hb.pc = "valid" /\ hb.enabled) => hb.valid = <<Pulled>>

\* the part of C32 that the code keeps: the hash is that of the stored file
C32_HashOfStoredFile ==
    (dl.pc = "done" /\ ~dl.expired) =>
        /\ dl.location = FinalLocation
        /\ dl.sha512 = get_file_checksum(dl.file)

----------------------------------------------------------------------------
(* Dispatcher._share_image(image, glance_image, project), called with the
   parameters of its signature *)

\* what add_member ends with: the member added, the catalog's 409 for a
\* project that is a member already, or another error of the catalog
AddOutcomes(entry, project) ==
    (IF project \in MemberIds(entry) THEN {"ConflictException"} ELSE {"ok"})
    \cup {"HttpException"}

\* lines 142-149: add_member in the try block; ConflictException is caught and
\* logged, any other exception is pending while the finally block runs
AddMember(p) ==
    /\ disp[p].pc = "add_member"
    /\ LET d == disp[p]
           id == d.glance_image.id
           project == ProjectOf(d.vos[1]) IN
       \E r \in AddOutcomes(catalog[id], project) :
          /\ catalog' = IF r = "ok"
                        THEN [catalog EXCEPT ![id].members =
                                 @ \cup {[member_id |-> project, status |-> "pending"]}]
                        ELSE catalog
          /\ disp' = [disp EXCEPT ![p].pc = "update_member",
                                  ![p].calls = Append(@, "add_member"),
                                  ![p].reason = r,
                                  ![p].err = IF r = "HttpException" THEN r ELSE ""]
    /\ UNCHANGED <<nextId, files, conf, last, runs, faults, syn, dl, sel, cv, hb>>

\* lines 150-160, the finally block: update_member(status="accepted") as the
\* project, whatever the try block ended with; then the pending exception, if
\* any, leaves the method. The catalog accepts the update for a member only.
UpdateMember(p) ==
    /\ disp[p].pc = "update_member"
    /\ LET d == disp[p]
           id == d.glance_image.id
           project == ProjectOf(d.vos[1]) IN
       \E ok \in BOOLEAN :
          /\ ok => project \in MemberIds(catalog[id])
          /\ catalog' = IF ok
                        THEN share_image(catalog, id, project)
                        ELSE catalog
          /\ disp' = [disp EXCEPT ![p].calls = Append(@, "update_member"),
                                  ![p].pc = IF ok /\ d.err = "" THEN "shared" ELSE "error",
                                  ![p].err = IF ok THEN d.err ELSE "HttpException"]
    /\ UNCHANGED <<nextId, files, conf, last, runs, faults, syn, dl, sel, cv, hb>>

\* the members an entry may have before the call: each of p1 and p2 absent,
\* pending or accepted
ShareMembers ==
    {m1 \cup m2 :
        m1 \in {{}, {[member_id |-> "p1", status |-> "pending"]},
                {[member_id |-> "p1", status |-> "accepted"]}},
        m2 \in {{}, {[member_id |-> "p2", status |-> "pending"]},
                {[member_id |-> "p2", status |-> "accepted"]}}}

\* an active, shared entry of the owner's, and a consumer with a project
InitShare ==
    /\ \E members \in ShareMembers, vo \in {"vo1", "vo2"} :
         /\ catalog = <<[Found({Tag}, "a", "h1", "active", "shared", {}) EXCEPT
                            !.members = members]>>
         /\ disp = [p \in Procs |->
                      IF p = 1
                      THEN [IdleDisp EXCEPT !.pc = "add_member", !.vos = <<vo>>,
                                            !.image = Descriptor("h1", "QCOW2"),
                                            !.glance_image = Resource(catalog, 1),
                                            !.before = catalog]
                      ELSE IdleDisp]
    /\ nextId = 2
    /\ files = {}
    /\ conf = [sharing_model |-> "shared", formats |-> <<>>]
    /\ last = NoRun
    /\ runs = 0
    /\ faults = 0
    /\ syn = NoSync
    /\ dl = NoDownload
    /\ sel = NoSelect
    /\ cv = NoConvert
    /\ hb = NoSource

NextShareImage ==
    \/ AddMember(1)
    \/ UpdateMember(1)

SpecShare == InitShare /\ [][NextShareImage]_vars

\* C33 as stated: _share_image issues update_member only after add_member
\* succeeded or answered that the project is a member already; when
\* add_member failed with another error no update_member is issued, and the
\* members of the entry are those it had before the call.
C33_AsStated ==
    LET d == disp[1] IN
    (Count(d.calls, "add_member") = 1 /\ d.reason = "HttpException") =>
        /\ Count(d.calls, "update_member") = 0
        /\ catalog[1].members = d.before[1].members

\* the accept follows a grant that succeeded or found the project a member
C33_AcceptAfterGrant ==
    /\ disp[1].pc = "shared"
    /\ disp[1].calls = <<"add_member", "update_member">>
    /\ [member_id |-> ProjectOf(disp[1].vos[1]), status |-> "accepted"] \in catalog[1].members

=============================================================================
